---- MODULE Spec2Model ----
(***************************************************************************)
(* Model of the pbrtapi server: the content-addressed render cache of      *)
(* POST /v1/debug/render with its periodic sweep, and the scene-text       *)
(* rewrite chain (path sanitizer, convert-time renaming, placeholder       *)
(* resolution, POST /v1/transform), overlapping convert requests, and the  *)
(* life of one model directory from POST /v1/model to DELETE.              *)
(*                                                                         *)
(* Scene text is a sequence of tokens.  A token is a record                *)
(*   [q |-> BOOLEAN, s |-> sequence of atoms]                              *)
(* q = TRUE is a double-quoted string whose content is the concatenation   *)
(* of the atoms, q = FALSE is a bare word (one atom); the words " " and    *)
(* "\n" are white space.  An atom is a lexical piece of a string ("..",    *)
(* "/", a name, the uploads root, ...), so that startsWith / includes /    *)
(* replace of the source are tests and edits on atom sequences.            *)
(***************************************************************************)
EXTENDS Integers, Sequences, FiniteSets, TLC

\* ------------------------------------------------------------------------
\* Tokens
\* ------------------------------------------------------------------------
W(x) == [q |-> FALSE, s |-> <<x>>]
Q(a) == [q |-> TRUE, s |-> a]
SP == W(" ")
NL == W("\n")
WsAtoms == {" ", "\n"}
IsWS(t) == (~t.q) /\ t.s[1] \in WsAtoms

\* first index >= i of a token that is not white space (Len+1 when none)
RECURSIVE WSEnd(_, _)
WSEnd(text, i) ==
    IF i > Len(text) THEN Len(text) + 1
    ELSE IF IsWS(text[i]) THEN WSEnd(text, i + 1) ELSE i

\* regex fragment  \s+"  : index of the quoted token that follows one or
\* more white-space tokens starting at i, 0 when there is none
NextQ(text, i) ==
    LET j == WSEnd(text, i)
    IN  IF j > i /\ j <= Len(text) /\ text[j].q THEN j ELSE 0

IsPrefix(p, a) == Len(p) <= Len(a) /\ SubSeq(a, 1, Len(p)) = p
Includes(a, x) == \E k \in 1..Len(a) : a[k] = x

\* the least of a non-empty set of indexes
Least(S) == CHOOSE k \in S : \A m \in S : k <= m
\* the first index >= i of a token of toks (Len+1 when none)
FirstOf(text, i, toks) ==
    LET S == { k \in i..Len(text) : text[k] \in toks }
    IN  IF S = {} THEN Len(text) + 1 ELSE Least(S)

\* ------------------------------------------------------------------------
\* Path atoms
\* ------------------------------------------------------------------------
UploadsRoot == "/home/pog/pbrtapi/uploads/"
StringFilename == Q(<<"string filename">>)
ModelIds == {"0a1b2c3d-e5f6", "99887766-aabb"}
StarAtoms == {"*0", "*1", "*2", "*3"}

\* String.prototype.startsWith('/')
StartsWithSlash(p) == Len(p) > 0 /\ p[1] \in {"/", UploadsRoot}

\* filename.startsWith('/home/pog/pbrtapi/uploads/models/')
UnderModelsRoot(p) == IsPrefix(<<UploadsRoot, "models/">>, p)

\* regex  /home/pog/pbrtapi/uploads/models/([a-f0-9-]+)/textures/\*(\d+)
\* matched at atom k of a
AbsPlaceholderAt(a, k) ==
    /\ k + 4 <= Len(a)
    /\ a[k] = UploadsRoot
    /\ a[k + 1] = "models/"
    /\ a[k + 2] \in ModelIds
    /\ a[k + 3] = "/textures/"
    /\ a[k + 4] \in StarAtoms

RECURSIVE RelPlaceholders(_, _)
RelPlaceholders(a, k) ==
    IF k > Len(a) THEN <<>>
    ELSE IF AbsPlaceholderAt(a, k)
         THEN SubSeq(a, k + 1, k + 4) \o RelPlaceholders(a, k + 5)
         ELSE <<a[k]>> \o RelPlaceholders(a, k + 1)

\* filename.replace(/\\/g, '/')
BackslashToSlash(p) == [k \in 1..Len(p) |-> IF p[k] = "\\" THEN "/" ELSE p[k]]

\* filename.replace('/home/pog/pbrtapi/uploads/', '') : first occurrence
RECURSIVE DropFirst(_, _)
DropFirst(p, x) ==
    IF p = <<>> THEN <<>>
    ELSE IF Head(p) = x THEN Tail(p) ELSE <<Head(p)>> \o DropFirst(Tail(p), x)

\* ------------------------------------------------------------------------
\* hasSuspiciousPbrtPaths
\* ------------------------------------------------------------------------
SuspiciousPrefixes ==
    { <<"..", "/">>, <<"~", "/">>, <<"/", "etc", "/">>, <<"/", "var", "/">>,
      <<"\\", "\\">> }

\* each pattern is  "filename"\s+"<prefix>  : a quoted string that is
\* exactly  filename , white space, a quoted string starting with <prefix>
hasSuspiciousPbrtPaths(content) ==
    \E i \in 1..Len(content) :
        /\ content[i] = Q(<<"filename">>)
        /\ LET j == NextQ(content, i + 1)
           IN  j # 0 /\ \E p \in SuspiciousPrefixes : IsPrefix(p, content[j].s)

\* ------------------------------------------------------------------------
\* sanitizePbrtPaths
\* ------------------------------------------------------------------------
\* the rewrite of a value that leaves its backslashes
SanitizeValueKeepsBackslash(filename, useRelativePath) ==
    IF ~StartsWithSlash(filename)
    THEN IF useRelativePath THEN filename
         ELSE <<"<baseDir>/">> \o filename
    ELSE DropFirst(filename, UploadsRoot)

SanitizeValue(filename, useRelativePath) ==
    IF ~StartsWithSlash(filename)
    THEN IF useRelativePath THEN BackslashToSlash(filename)
         ELSE <<"<baseDir>/">> \o BackslashToSlash(filename)
    ELSE DropFirst(filename, UploadsRoot)

RECURSIVE SanitizeScan(_, _, _)
SanitizeScan(text, i, useRelativePath) ==
    LET k == FirstOf(text, i, {StringFilename})
        j == IF k <= Len(text) THEN NextQ(text, k + 1) ELSE 0
    IN  IF k > Len(text) THEN SubSeq(text, i, Len(text))
        ELSE SubSeq(text, i, k - 1)
             \o (IF j # 0 /\ text[j].s # <<>>
                 THEN LET filename == text[j].s
                          rewritten == (~StartsWithSlash(filename))
                                       \/ (useRelativePath /\ UnderModelsRoot(filename))
                      IN  (IF rewritten
                           THEN <<StringFilename, SP,
                                  Q(SanitizeValue(filename, useRelativePath))>>
                           ELSE SubSeq(text, k, j))
                          \o SanitizeScan(text, j + 1, useRelativePath)
                 ELSE <<text[k]>> \o SanitizeScan(text, k + 1, useRelativePath))

sanitizePbrtPaths(content, useRelativePath) ==
    LET processedContent ==
            [k \in 1..Len(content) |->
                IF useRelativePath
                THEN [content[k] EXCEPT !.s = RelPlaceholders(content[k].s, 1)]
                ELSE content[k]]
    IN  SanitizeScan(processedContent, 1, useRelativePath)

\* ------------------------------------------------------------------------
\* GET /v1/convert/:uuid : the rewrite of nono.pbrt
\* ------------------------------------------------------------------------
\* modelId.substring(0, 8) + '-'
PrefixOf(modelId) ==
    IF modelId = "0a1b2c3d-e5f6" THEN "0a1b2c3d-" ELSE "99887766-"
TexturesMarker == W("# Textures")

RECURSIVE IndexOf(_, _, _)
IndexOf(text, tok, i) ==
    IF i > Len(text) THEN 0
    ELSE IF text[i] = tok THEN i ELSE IndexOf(text, tok, i + 1)

\* Map.set : insertion order is kept, a key that is present stays in place
MapSet(map, key, val) ==
    IF \E k \in 1..Len(map) : map[k][1] = key
    THEN [k \in 1..Len(map) |-> IF map[k][1] = key THEN <<key, val>> ELSE map[k]]
    ELSE Append(map, <<key, val>>)
MapHas(map, key) == \E k \in 1..Len(map) : map[k][1] = key

\* texturePattern  Texture\s+"([^"]+)"\s+"([^"]+)"\s+"([^"]+)"  at i : the
\* index of the last token of the match, 0 when there is no match
MatchTexture3(text, i) ==
    IF text[i] # W("Texture") THEN 0
    ELSE LET j1 == NextQ(text, i + 1)
             j2 == IF j1 = 0 THEN 0 ELSE NextQ(text, j1 + 1)
             j3 == IF j2 = 0 THEN 0 ELSE NextQ(text, j2 + 1)
         IN  IF j3 # 0 /\ text[j1].s # <<>> /\ text[j2].s # <<>> /\ text[j3].s # <<>>
             THEN j3 ELSE 0

TextureNewName(originalName, prefix) ==
    IF IsPrefix(<<"rgb:">>, originalName)
    THEN <<"rgb:", prefix>> \o Tail(originalName)
    ELSE <<prefix>> \o originalName

TextureExcluded(originalName, prefix) == Includes(originalName, prefix)

RECURSIVE TextureMap(_, _, _, _)
TextureMap(text, i, map, prefix) ==
    IF i > Len(text) THEN map
    ELSE LET e == MatchTexture3(text, i)
         IN  IF e = 0 THEN TextureMap(text, i + 1, map, prefix)
             ELSE LET originalName == text[NextQ(text, i + 1)].s
                  IN  TextureMap(text, e + 1,
                                 IF ~TextureExcluded(originalName, prefix)
                                 THEN MapSet(map, originalName,
                                             TextureNewName(originalName, prefix))
                                 ELSE map,
                                 prefix)

\* <word>\s+"<name>"\s+  at i : index of the last white-space token of the
\* match, 0 when there is no match
MatchDef(text, i, word, name) ==
    IF text[i] # W(word) THEN 0
    ELSE LET j == NextQ(text, i + 1)
         IN  IF j = 0 \/ text[j].s # name THEN 0
             ELSE LET e == WSEnd(text, j + 1) IN IF e > j + 1 THEN e - 1 ELSE 0

\* emptyMaterialPattern  MakeNamedMaterial\s+""\s+  : the matches' positions
RECURSIVE EmptyMatches(_, _)
EmptyMatches(text, i) ==
    IF i > Len(text) THEN <<>>
    ELSE LET e == MatchDef(text, i, "MakeNamedMaterial", <<>>)
         IN  IF e = 0 THEN EmptyMatches(text, i + 1)
             ELSE <<i>> \o EmptyMatches(text, e + 1)

\* an exclusion that lets a name with the prefix through
MaterialExcludedEmptyOnly(originalName, prefix) == originalName = <<>>

\* if (originalName !== '' && !originalName.includes(prefix))
MaterialExcluded(originalName, prefix) ==
    originalName = <<>> \/ Includes(originalName, prefix)

\* materialPattern  MakeNamedMaterial\s+"([^"]*)"\s+
RECURSIVE MaterialMap(_, _, _, _)
MaterialMap(text, i, map, prefix) ==
    IF i > Len(text) THEN map
    ELSE LET j == IF text[i] = W("MakeNamedMaterial") THEN NextQ(text, i + 1) ELSE 0
             e == IF j = 0 THEN 0 ELSE MatchDef(text, i, "MakeNamedMaterial", text[j].s)
         IN  IF e = 0 THEN MaterialMap(text, i + 1, map, prefix)
             ELSE MaterialMap(text, e + 1,
                              IF ~MaterialExcluded(text[j].s, prefix)
                              THEN MapSet(map, text[j].s, <<prefix>> \o text[j].s)
                              ELSE map,
                              prefix)

\* newContent.replace(new RegExp(`<word>\\s+"<orig>"\\s+`, 'g'), `<word> "<new>" `)
RECURSIVE ReplaceDefs(_, _, _, _, _)
ReplaceDefs(text, i, word, originalName, newName) ==
    IF i > Len(text) THEN <<>>
    ELSE LET e == MatchDef(text, i, word, originalName)
         IN  IF e = 0
             THEN <<text[i]>> \o ReplaceDefs(text, i + 1, word, originalName, newName)
             ELSE <<W(word), SP, Q(newName), SP>>
                  \o ReplaceDefs(text, e + 1, word, originalName, newName)

\* "texture\s+[^"]*"  : a quoted parameter name of type texture
IsTextureParam(t) == t.q /\ Len(t.s) >= 2 /\ t.s[1] = "texture" /\ t.s[2] \in WsAtoms

\* match.replace(`"${originalName}"`, `"${newName}"`) : the first quoted
\* string of the match that equals the name
RECURSIVE ReplaceFirstQ(_, _, _)
ReplaceFirstQ(m, originalName, newName) ==
    IF m = <<>> THEN <<>>
    ELSE IF Head(m) = Q(originalName) THEN <<Q(newName)>> \o Tail(m)
         ELSE <<Head(m)>> \o ReplaceFirstQ(Tail(m), originalName, newName)

\* textureRefRegex  "texture\s+[^"]*"\s+"<orig>"
RECURSIVE ReplaceTextureRefs(_, _, _, _)
ReplaceTextureRefs(text, i, originalName, newName) ==
    IF i > Len(text) THEN <<>>
    ELSE LET j == IF IsTextureParam(text[i]) THEN NextQ(text, i + 1) ELSE 0
         IN  IF j # 0 /\ text[j].s = originalName
             THEN ReplaceFirstQ(SubSeq(text, i, j), originalName, newName)
                  \o ReplaceTextureRefs(text, j + 1, originalName, newName)
             ELSE <<text[i]>> \o ReplaceTextureRefs(text, i + 1, originalName, newName)

\* materialRefRegex  NamedMaterial\s+"<orig>"  (emptyMaterialRefRegex for
\* the empty name): the regex has no word boundary, so it also matches the
\* tail of the word MakeNamedMaterial, whose head "Make" is then kept
RECURSIVE ReplaceMaterialRefs(_, _, _, _)
ReplaceMaterialRefs(text, i, originalName, newName) ==
    IF i > Len(text) THEN <<>>
    ELSE LET j == IF text[i] \in {W("NamedMaterial"), W("MakeNamedMaterial")}
                  THEN NextQ(text, i + 1) ELSE 0
         IN  IF j # 0 /\ text[j].s = originalName
             THEN <<text[i], SP, Q(newName)>>
                  \o ReplaceMaterialRefs(text, j + 1, originalName, newName)
             ELSE <<text[i]>> \o ReplaceMaterialRefs(text, i + 1, originalName, newName)

\* a replacement that rewrites the texture definitions and leaves the
\* references as they are
RECURSIVE ApplyTextureMapDefsOnly(_, _, _)
ApplyTextureMapDefsOnly(text, map, k) ==
    IF k > Len(map) THEN text
    ELSE ApplyTextureMapDefsOnly(
             ReplaceDefs(text, 1, "Texture", map[k][1], map[k][2]), map, k + 1)

\* textureMap.forEach(...)
RECURSIVE ApplyTextureMap(_, _, _)
ApplyTextureMap(text, map, k) ==
    IF k > Len(map) THEN text
    ELSE ApplyTextureMap(
             ReplaceTextureRefs(
                 ReplaceDefs(text, 1, "Texture", map[k][1], map[k][2]),
                 1, map[k][1], map[k][2]),
             map, k + 1)

\* materialMap.forEach(...)
RECURSIVE ApplyMaterialMap(_, _, _)
ApplyMaterialMap(text, map, k) ==
    IF k > Len(map) THEN text
    ELSE ApplyMaterialMap(
             ReplaceMaterialRefs(
                 ReplaceDefs(text, 1, "MakeNamedMaterial", map[k][1], map[k][2]),
                 1, map[k][1], map[k][2]),
             map, k + 1)

\* updatedPaths : "string filename" values under the models root, made
\* relative to the uploads root
RECURSIVE UpdatedPaths(_, _)
UpdatedPaths(text, i) ==
    IF i > Len(text) THEN text
    ELSE LET j == IF text[i] = StringFilename THEN NextQ(text, i + 1) ELSE 0
         IN  IF j # 0 /\ text[j].s # <<>>
             THEN IF UnderModelsRoot(text[j].s)
                  THEN UpdatedPaths(
                           SubSeq(text, 1, i - 1)
                           \o <<StringFilename, SP, Q(DropFirst(text[j].s, UploadsRoot))>>
                           \o SubSeq(text, j + 1, Len(text)),
                           i + 3)
                  ELSE UpdatedPaths(text, j + 1)
             ELSE UpdatedPaths(text, i + 1)

\* parseInt of the digits of a placeholder *N
StarIndex(star) == CHOOSE n \in 0..3 : star = <<"*0", "*1", "*2", "*3">>[n + 1]
SlashEnded == {"/", "/textures/", "models/", UploadsRoot}

\* placeholderPattern  "string filename"\s+"models/[^/]+/textures/\*(\d+)"
StandardPlaceholder(p) ==
    /\ Len(p) = 4
    /\ p[1] = "models/"
    /\ p[2] \in ModelIds
    /\ p[3] = "/textures/"
    /\ p[4] \in StarAtoms
\* simplePlaceholderPattern  "string filename"\s+"\*(\d+)"
SimplePlaceholder(p) == Len(p) = 1 /\ p[1] \in StarAtoms
\* absolutePlaceholderPattern  "string filename"\s+"[^"]*/\*(\d+)"  without
\* the matches that include  models/<modelId>/textures/*N
AbsolutePlaceholder(p, modelId) ==
    /\ Len(p) >= 2
    /\ p[Len(p)] \in StarAtoms
    /\ p[Len(p) - 1] \in SlashEnded
    /\ ~(Len(p) >= 4 /\ SubSeq(p, Len(p) - 3, Len(p) - 1)
                           = <<"models/", modelId, "/textures/">>)

\* a file of a textures directory: its name, as the stem followed by its
\* extensions, and the image type its first bytes are the signature of
\* ("none": of no type the code knows)
TexFile(name, sig) == [name |-> name, sig |-> sig]
NoDir == [exists |-> FALSE, files |-> <<>>]
Dir(files) == [exists |-> TRUE, files |-> files]

\* if (fileExt && !specialCases.some(Boolean)) continue;  path.extname of a
\* name that ends with a dot is '.'
HasUsableExtension(name) == Len(name) >= 2 /\ name[Len(name)] # "."

\* the name detectAndFixImageFileExtensions leaves a file with
FixedName(f) ==
    IF HasUsableExtension(f.name) \/ f.sig = "none"
    THEN f.name
    ELSE Append(f.name, IF f.sig = "png" THEN ".png" ELSE ".jpg")

\* detectAndFixImageFileExtensions : modifiedFiles
detectAndFixImageFileExtensions(files) ==
    [k \in 1..Len(files) |-> FixedName(files[k])]

\* the directory after the renames (fs.renameSync replaces a file that has
\* the new name already)
RECURSIVE RenamedFiles(_, _)
RenamedFiles(files, k) ==
    IF k > Len(files) THEN <<>>
    ELSE LET rest == RenamedFiles(files, k + 1)
             f == TexFile(FixedName(files[k]), files[k].sig)
             replaced == /\ f.name = files[k].name
                         /\ \E m \in 1..Len(files) :
                               m # k /\ FixedName(files[m]) = f.name
         IN  IF replaced THEN rest ELSE <<f>> \o rest
\* if (!fs.existsSync(texturesDir)) fs.mkdirSync(texturesDir, ...)
EnsureDir(dir) == IF dir.exists THEN dir ELSE Dir(<<>>)
DirAfterFix(dir) ==
    IF dir.exists THEN Dir(RenamedFiles(dir.files, 1)) ELSE dir

\* the order of the UTF-16 code units of the pieces of file names
NameAtoms == <<".", ".bin", ".jpg", ".png", "a", "b", "c", "wood">>
AtomRank(x) == CHOOSE n \in 1..Len(NameAtoms) : NameAtoms[n] = x
RECURSIVE NameLess(_, _)
NameLess(x, y) ==
    IF y = <<>> THEN FALSE
    ELSE IF x = <<>> THEN TRUE
    ELSE IF Head(x) = Head(y) THEN NameLess(Tail(x), Tail(y))
    ELSE AtomRank(Head(x)) < AtomRank(Head(y))

\* textureFiles.sort()
RECURSIVE InsertSorted(_, _)
InsertSorted(name, sorted) ==
    IF sorted = <<>> THEN <<name>>
    ELSE IF NameLess(Head(sorted), name) \/ Head(sorted) = name
         THEN <<Head(sorted)>> \o InsertSorted(name, Tail(sorted))
         ELSE <<name>> \o sorted
RECURSIVE SortNames(_)
SortNames(names) ==
    IF names = <<>> THEN <<>>
    ELSE InsertSorted(Head(names), SortNames(Tail(names)))

\* the enumeration of lines 1281-1298: empty when the directory is missing
\* or has no file
EnumerateTextures(dir) ==
    IF dir.exists THEN SortNames(detectAndFixImageFileExtensions(dir.files))
    ELSE <<>>

\* a test that takes every index for one of a file
InRangeAlways(index, files) == TRUE

\* if (index < textureFiles.length)
InRange(index, files) == index < Len(files)

\* textureFiles[index]
FileAt(files, index) ==
    IF index < Len(files) THEN files[index + 1] ELSE <<"undefined">>

\* the three replacement loops of replaceTextureReferences over the sorted
\* list of the files
RECURSIVE ReplacePlaceholders(_, _, _, _)
ReplacePlaceholders(text, i, modelId, files) ==
    LET k == FirstOf(text, i, {StringFilename})
        j == IF k <= Len(text) THEN NextQ(text, k + 1) ELSE 0
        p == IF j = 0 THEN <<>> ELSE text[j].s
    IN  IF k > Len(text) THEN SubSeq(text, i, Len(text))
        ELSE SubSeq(text, i, k - 1)
             \o (IF /\ j # 0
                    /\ \/ StandardPlaceholder(p)
                       \/ SimplePlaceholder(p)
                       \/ AbsolutePlaceholder(p, modelId)
                    /\ InRange(StarIndex(p[Len(p)]), files)
                 THEN <<StringFilename, SP,
                        Q(<<"models/", modelId, "/textures/">>
                          \o FileAt(files, StarIndex(p[Len(p)])))>>
                      \o ReplacePlaceholders(text, j + 1, modelId, files)
                 ELSE <<text[k]>> \o ReplacePlaceholders(text, k + 1, modelId, files))

\* replaceTextureReferences(pbrtContent, modelDir, modelId) : the text it
\* returns; dir is models/<modelId>/textures
replaceTextureReferences(pbrtContent, dir, modelId) ==
    IF EnumerateTextures(dir) = <<>> THEN pbrtContent
    ELSE ReplacePlaceholders(pbrtContent, 1, modelId, EnumerateTextures(dir))

\* the rewrite of lines 1498-1672: [err, text] where text is what nono.pbrt
\* holds afterwards
AmbiguousRename == "AmbiguousRename"
NoError == "none"

\* a test that lets two anonymous definitions through
TooManyEmptyOverTwo(emptyMatches) == Len(emptyMatches) > 2

\* if (emptyMatches.length > 1)
TooManyEmpty(emptyMatches) == Len(emptyMatches) > 1

RewriteNono(pbrtContent, modelId, dir) ==
    LET texturesIndex == IndexOf(pbrtContent, TexturesMarker, 1)
    IN  IF texturesIndex = 0 THEN [err |-> NoError, text |-> pbrtContent]
        ELSE
        LET prefix == PrefixOf(modelId)
            cut == SubSeq(pbrtContent, texturesIndex, Len(pbrtContent))
            textureMap == TextureMap(cut, 1, <<>>, prefix)
            sanitized == UpdatedPaths(sanitizePbrtPaths(cut, TRUE), 1)
            emptyMatches == EmptyMatches(sanitized, 1)
            materialMap0 == IF Len(emptyMatches) = 1
                            THEN <<  << <<>>, <<prefix, "noname_material">> >>  >>
                            ELSE <<>>
            materialMap == MaterialMap(sanitized, 1, materialMap0, prefix)
            newContent == ApplyMaterialMap(
                              ApplyTextureMap(sanitized, textureMap, 1),
                              materialMap, 1)
        IN  IF TooManyEmpty(emptyMatches)
            THEN [err |-> AmbiguousRename, text |-> pbrtContent]
            ELSE [err |-> NoError,
                  text |-> replaceTextureReferences(newContent, dir, modelId)]

\* ------------------------------------------------------------------------
\* Bounded inputs: scene texts built from directive lines
\* ------------------------------------------------------------------------
MaxLines == 3

TextureNames == { <<"a">>, <<"rgb:", "a">>, <<"0a1b2c3d-", "a">> }
MaterialNames == { <<>>, <<"a">>, <<"0a1b2c3d-", "a">>, <<"noname_material">> }
ConvertDirs == { NoDir, Dir(<<TexFile(<<"wood">>, "png")>>) }
FilePaths ==
    { <<"tex", "\\", "a.png">>,
      <<UploadsRoot, "models/", "0a1b2c3d-e5f6", "/textures/", "*0">> }

SceneLines ==
    { <<TexturesMarker, NL>>, <<W("Camera"), NL>>,
      <<W("MakeNamedMaterial"), SP, Q(<<>>)>> }
    \cup { <<W("Texture"), SP, Q(n), SP, Q(<<"spectrum">>), SP, Q(<<"imagemap">>), NL>> :
             n \in TextureNames }
    \cup { <<Q(<<"texture", " ", "reflectance">>), SP, Q(n), NL>> : n \in TextureNames }
    \cup { <<W("MakeNamedMaterial"), SP, Q(n), NL>> : n \in MaterialNames }
    \cup { <<W("NamedMaterial"), SP, Q(n), NL>> : n \in MaterialNames }
    \cup { <<StringFilename, SP, Q(p), NL>> : p \in FilePaths }

RECURSIVE TextsOf(_)
TextsOf(n) ==
    IF n = 0 THEN { <<>> }
    ELSE LET prev == TextsOf(n - 1)
         IN  prev \cup { t \o l : t \in prev, l \in SceneLines }

SceneTexts == TextsOf(MaxLines)

\* ------------------------------------------------------------------------
\* Render cache: bounds, inputs and files
\* ------------------------------------------------------------------------
MaxReq == 2
MaxNow == 8
MaxInstant == 1
\* if (now - stat.mtimeMs > 7 * 24 * 3600 * 1000)
RetentionDays == 7

\* Date.now() is the pair (now, instant): now counts days, instant the
\* distinct clock readings (milliseconds) within the day.  Modification
\* times are kept in days; the timestamps in file names are instants, and
\* the files named by the instants of a past day are dropped from the
\* state, since no later request can compute their names.
Reqs == 1..MaxReq
Times == 0..MaxInstant

\* the documents submitted for rendering
RenderScenes ==
    << <<W("Shape"), SP, Q(<<"plymesh">>), SP, StringFilename, SP,
         Q(<<"tex", "\\", "a.png">>), NL>>,
       <<W("Texture"), SP, Q(<<"t">>), SP, Q(<<"spectrum">>), SP, Q(<<"imagemap">>),
         SP, StringFilename, SP, Q(<<"..", "/", "etc", "/", "passwd">>), NL>>,
       <<Q(<<"filename">>), SP, Q(<<"..", "/", "x">>), NL>> >>
SceneIds == 1..Len(RenderScenes)

\* calculateFileHash / calculateTextHash : SHA-256 of the submitted bytes,
\* hex encoded; distinct documents have distinct digests
Digests == <<"h1", "h2", "h3">>
Sha256Hex(sceneId) == Digests[sceneId]

\* req.body.hash is whatever the client sends; Undefined is a request with
\* no hash field.  path.join(cacheDir, `${currentHash}.exr`)
Undefined == "<undefined>"
HashFields == {"h1", "h2", Undefined}
CachePath(currentHash) == IF currentHash = Undefined THEN "undefined" ELSE currentHash
CacheKeys == {CachePath(h) : h \in HashFields}
\* req.body.lastHash ("" : not sent)
LastHashes == {"", "h1"}
Channels == {"file", "editor", "none"}

NoImg == [scene |-> 0, complete |-> FALSE]
Img(sceneId, complete) == [scene |-> sceneId, complete |-> complete]
NoEntry == [present |-> FALSE, img |-> NoImg, mtime |-> 0]
Entry(img, mtime) == [present |-> TRUE, img |-> img, mtime |-> mtime]
NoExr == [exists |-> FALSE, img |-> NoImg]
Exr(img) == [exists |-> TRUE, img |-> img]
NoPbrt == [exists |-> FALSE, scene |-> 0, text |-> <<>>]
Pbrt(sceneId, text) == [exists |-> TRUE, scene |-> sceneId, text |-> text]
\* uploads/pbrtFile-<Date.now()>.pbrt (multer) and
\* uploads/temp-pbrt-<Date.now()>.pbrt (editor content)
PbrtPaths == {"file", "editor"} \X Times

NoBytes == [present |-> FALSE, img |-> NoImg]
Bytes(img) == [present |-> TRUE, img |-> img]
BytesOf(entry) == [present |-> entry.present, img |-> entry.img]

\* a request: its inputs (hash, lastHash, chan, scene; kept while it is
\* rendering), where its handler stands (pc), its timestamp, its renderer
\* process (pbrt, rin), its answer (status, xcache, body), what the cache
\* held for its key when it was looked up (atLookup), what the last
\* successful render of its key had stored by then (prior), whether
\* hasSuspiciousPbrtPaths holds of its document (suspicious) and whether it
\* carried a document at all (valid)
NewReq ==
    [pc |-> "new", hash |-> "", lastHash |-> "", chan |-> "none", scene |-> 0,
     ts |-> 0, pbrt |-> "none", rin |-> 0, status |-> 0, xcache |-> "",
     body |-> NoImg, atLookup |-> NoBytes, prior |-> NoBytes,
     suspicious |-> FALSE, valid |-> FALSE]

\* lines 396-410 :  "string filename"\s+"/home/pog/pbrtapi/uploads/([^"]+)"
\* is replaced by  "string filename" "<the rest>"
RECURSIVE FixUploadsAbsolute(_, _)
FixUploadsAbsolute(text, i) ==
    IF i > Len(text) THEN <<>>
    ELSE LET j == IF text[i] = StringFilename THEN NextQ(text, i + 1) ELSE 0
         IN  IF j # 0 /\ Len(text[j].s) >= 2 /\ text[j].s[1] = UploadsRoot
             THEN <<StringFilename, SP, Q(Tail(text[j].s))>>
                  \o FixUploadsAbsolute(text, j + 1)
             ELSE <<text[i]>> \o FixUploadsAbsolute(text, i + 1)

\* lines 509-522 : absolute model-texture placeholders made relative
FixTexturePaths(text) ==
    [k \in 1..Len(text) |-> [text[k] EXCEPT !.s = RelPlaceholders(text[k].s, 1)]]

\* the scene file as the handler has written it when it comes to its
\* texture fix-up
SanitizedFile(chan, content) ==
    IF chan = "file"
    THEN FixUploadsAbsolute(sanitizePbrtPaths(content, TRUE), 1)
    ELSE sanitizePbrtPaths(content, TRUE)

\* the scene text after the fix-up has made its placeholders relative
SceneFileText(chan, content) == FixTexturePaths(SanitizedFile(chan, content))

\* lines 483-506 : the models that modelUuidRegex finds in the scene file
\* and whose textures directory lists a file; dir is the textures directory
\* of modelId, the other models have none
modelTextures(text, dir, modelId) ==
    { id \in ModelIds :
        /\ \E k \in 1..Len(text) : \E a \in 1..Len(text[k].s) :
              AbsPlaceholderAt(text[k].s, a) /\ text[k].s[a + 2] = id
        /\ id = modelId
        /\ dir.exists
        /\ dir.files # <<>> }

\* lines 478-538 : the scene text in the file when the renderer is started
HandedToRenderer(chan, content, dir, modelId) ==
    IF modelTextures(SanitizedFile(chan, content), dir, modelId) # {}
    THEN replaceTextureReferences(SceneFileText(chan, content), dir, modelId)
    ELSE SceneFileText(chan, content)

\* a lookup that finds nothing, whatever the cache directory holds
CacheLookupNothing(c, currentHash) == NoEntry

\* fs.existsSync(cachePath) / fs.readFileSync(cachePath)
CacheLookup(c, currentHash) == c[CachePath(currentHash)]

\* now - stat.mtimeMs > 7 * 24 * 3600 * 1000
Expired(t, mtime) == t - mtime > RetentionDays

\* ------------------------------------------------------------------------
\* State
\* ------------------------------------------------------------------------
VARIABLES
    uuid,         \* the model the convert requests name
    texturesDir,  \* models/<uuid>/textures : [exists, files]
    assimpOut,    \* what the external converter writes for its model file
    nono,         \* models/<uuid>/nono.pbrt : [exists, text]
    info,         \* the status flags of models/<uuid>/info.json
    convertResp,  \* status of the last convert response (0: none yet)
    lastRewrite   \* the last run of the rewrite try block: [ran,
                  \* alreadyConverted, input, err]

VARIABLES
    resolveText,  \* the text handed to replaceTextureReferences
    resolveOut    \* its last call: [ran, input, dir, files, text]

VARIABLES
    now,          \* Date.now() : the day
    instant,      \* Date.now() : the clock reading within the day
    cache,        \* exr_cache/<key>.exr : [present, img, mtime]
    outFiles,     \* /tmp/pbrtapi/pbrt-<timestamp>.exr : [exists, img]
    pbrtFiles,    \* the scene files in uploads/ : [exists, scene, text]
    req,          \* the render requests
    rendered      \* per key, the bytes its last successful render stored

VARIABLES
    momo,          \* models/<uuid>/momo.pbrt : [exists, text]
    transformResp, \* status of the last transform response (0: none yet)
    lastTransform  \* the transform rewrites so far: [ran, count] and of the
                   \* last one [input, translate, rotate, scale]

VARIABLES
    modelDir,      \* models/<uuid> exists
    convReq        \* the convert requests that may overlap: [pc, resp], pc one
                   \* of "idle", "converting" (awaiting execFile), "done"

VARIABLES
    sweepThrew     \* an exception of the sweep has reached the handler of
                   \* uncaughtException, which logs it and keeps the service up

VARIABLES
    sanitizeOut    \* the last call of sanitizePbrtPaths on its own:
                   \* [ran, content, useRelativePath, text]

resolveVars == <<resolveText, resolveOut, sanitizeOut>>
concurrentVars == <<modelDir, convReq>>
transformVars == <<momo, transformResp, lastTransform>>
convertVars == <<uuid, texturesDir, assimpOut, nono, info, convertResp, lastRewrite>>
renderVars == <<now, instant, cache, outFiles, pbrtFiles, req, rendered, sweepThrew>>
vars == <<convertVars, resolveVars, transformVars, concurrentVars, renderVars>>

NoFile == [exists |-> FALSE, text |-> <<>>]
File(text) == [exists |-> TRUE, text |-> text]

InitRender ==
    /\ now = 0
    /\ instant = 0
    /\ cache = [k \in CacheKeys |-> NoEntry]
    /\ outFiles = [t \in Times |-> NoExr]
    /\ pbrtFiles = [f \in PbrtPaths |-> NoPbrt]
    /\ req = [r \in Reqs |-> NewReq]
    /\ rendered = [k \in CacheKeys |-> NoBytes]
    /\ sweepThrew = FALSE

NotTransformed == [ran |-> FALSE, count |-> 0, input |-> <<>>, translate |-> <<>>,
                   rotate |-> <<>>, scale |-> <<>>]

MaxConverts == 2
Converts == 1..MaxConverts

NoConvertYet ==
    /\ modelDir = TRUE
    /\ convReq = [r \in Converts |-> [pc |-> "idle", resp |-> 0]]

NoTransformYet ==
    /\ NoConvertYet
    /\ momo = NoFile
    /\ transformResp = 0
    /\ lastTransform = NotTransformed

NotResolved == [ran |-> FALSE, input |-> <<>>, dir |-> NoDir, files |-> <<>>,
                text |-> <<>>]
NotSanitized == [ran |-> FALSE, content |-> <<>>, useRelativePath |-> FALSE,
                 text |-> <<>>]

InitModel ==
    /\ NoTransformYet
    /\ resolveText = <<>>
    /\ resolveOut = NotResolved
    /\ sanitizeOut = NotSanitized
    /\ uuid = "0a1b2c3d-e5f6"
    /\ texturesDir = NoDir
    /\ assimpOut = <<>>
    /\ nono = NoFile
    /\ info = [pbrt_converted |-> FALSE, nono_available |-> FALSE,
               momo_available |-> FALSE]
    /\ convertResp = 0
    /\ lastRewrite = [ran |-> FALSE, alreadyConverted |-> FALSE, input |-> <<>>,
                      err |-> NoError]

InitConvert ==
    /\ NoTransformYet
    /\ InitRender
    /\ resolveText = <<>>
    /\ resolveOut = NotResolved
    /\ sanitizeOut = NotSanitized
    /\ uuid \in ModelIds
    /\ texturesDir \in ConvertDirs
    /\ assimpOut \in SceneTexts
    /\ nono = NoFile
    /\ info = [pbrt_converted |-> FALSE, nono_available |-> FALSE,
               momo_available |-> FALSE]
    /\ convertResp = 0
    /\ lastRewrite = [ran |-> FALSE, alreadyConverted |-> FALSE, input |-> <<>>,
                      err |-> NoError]

\* GET /v1/convert/:uuid with the converter failing (it throws, or leaves no
\* nono.pbrt): answered 500, nothing else changes
ConvertFails ==
    /\ ~nono.exists
    /\ convertResp' = 500
    /\ UNCHANGED <<uuid, texturesDir, assimpOut, nono, info, lastRewrite, renderVars,
                   resolveVars, transformVars, concurrentVars>>

\* GET /v1/convert/:uuid past the conversion: the rewrite try block, whose
\* error is caught and logged, then the flags and the answer
ConvertRewrites ==
    LET alreadyConverted == nono.exists
        pbrtContent == IF alreadyConverted THEN nono.text ELSE assimpOut
        dir == IF alreadyConverted THEN texturesDir ELSE EnsureDir(texturesDir)
        r == RewriteNono(pbrtContent, uuid, dir)
        resolved == r.err = NoError /\ IndexOf(pbrtContent, TexturesMarker, 1) # 0
    IN  /\ nono' = File(r.text)
        /\ lastRewrite' = [ran |-> TRUE, alreadyConverted |-> alreadyConverted,
                           input |-> pbrtContent, err |-> r.err]
        /\ info' = [pbrt_converted |-> TRUE, nono_available |-> TRUE,
                    momo_available |-> FALSE]
        /\ convertResp' = 200
        /\ texturesDir' = IF resolved THEN DirAfterFix(dir) ELSE dir
        /\ UNCHANGED <<uuid, assimpOut, renderVars, resolveVars, transformVars, concurrentVars>>

NextConvert == ConvertFails \/ ConvertRewrites

SpecConvert == InitConvert /\ [][NextConvert]_vars

\* ------------------------------------------------------------------------
\* replaceTextureReferences on its own
\* ------------------------------------------------------------------------
MaxRefs == 2

ResolveDirs ==
    { NoDir, Dir(<<>>),
      Dir(<<TexFile(<<"wood">>, "png")>>),
      Dir(<<TexFile(<<"a">>, "none")>>),
      Dir(<<TexFile(<<"a", ".">>, "png")>>),
      Dir(<<TexFile(<<"a", ".bin">>, "jpg"), TexFile(<<"b", ".png">>, "png"),
            TexFile(<<"c", ".bin">>, "png")>>),
      Dir(<<TexFile(<<"c">>, "png"), TexFile(<<"a">>, "jpg"),
            TexFile(<<"b", ".png">>, "png")>>),
      Dir(<<TexFile(<<"a">>, "png"), TexFile(<<"a", ".png">>, "jpg")>>) }

PlaceholderPaths ==
    { <<"models/", id, "/textures/", star>> : id \in ModelIds, star \in {"*0", "*2"} }
    \cup { <<star>> : star \in StarAtoms }
    \cup { <<"/", "*0">>, <<"/", "*3">>,
           <<"/", "models/", "0a1b2c3d-e5f6", "/textures/", "*0">>,
           <<"tex", "/", "a.png">> }

RefLines ==
    { <<StringFilename, SP, Q(p), NL>> : p \in PlaceholderPaths }
    \cup { <<StringFilename, NL, SP, Q(<<"*0">>), NL>> }

RECURSIVE RefTextsOf(_)
RefTextsOf(n) ==
    IF n = 0 THEN { <<>> }
    ELSE LET prev == RefTextsOf(n - 1)
         IN  prev \cup { t \o l : t \in prev, l \in RefLines }

InitResolve ==
    /\ InitRender
    /\ NoTransformYet
    /\ uuid \in ModelIds
    /\ texturesDir \in ResolveDirs
    /\ resolveText \in RefTextsOf(MaxRefs)
    /\ resolveOut = NotResolved
    /\ sanitizeOut = NotSanitized
    /\ assimpOut = <<>>
    /\ nono = NoFile
    /\ info = [pbrt_converted |-> FALSE, nono_available |-> FALSE,
               momo_available |-> FALSE]
    /\ convertResp = 0
    /\ lastRewrite = [ran |-> FALSE, alreadyConverted |-> FALSE, input |-> <<>>,
                      err |-> NoError]

\* one call of replaceTextureReferences on resolveText, whose result the
\* caller keeps as the text
Resolve ==
    /\ resolveOut' = [ran |-> TRUE, input |-> resolveText, dir |-> texturesDir,
                      files |-> EnumerateTextures(texturesDir),
                      text |-> replaceTextureReferences(resolveText, texturesDir, uuid)]
    /\ resolveText' = replaceTextureReferences(resolveText, texturesDir, uuid)
    /\ texturesDir' = DirAfterFix(texturesDir)
    /\ UNCHANGED <<uuid, assimpOut, nono, info, convertResp, lastRewrite, renderVars,
                   transformVars, concurrentVars, sanitizeOut>>

NextResolve == Resolve

SpecResolve == InitResolve /\ [][NextResolve]_vars

\* ------------------------------------------------------------------------
\* sanitizePbrtPaths on its own
\* ------------------------------------------------------------------------
SanitizePaths ==
    { <<"tex", "/", "a.png">>, <<"tex", "\\", "a.png">>,
      <<UploadsRoot, "models/", "0a1b2c3d-e5f6", "/textures/", "wood.png">>,
      <<UploadsRoot, "models/", "0a1b2c3d-e5f6", "/textures/", "*1">>,
      <<"models/", "0a1b2c3d-e5f6", "/textures/", "*0">>,
      <<"/", "usr", "/", "a.png">>,
      <<UploadsRoot, "a.png">> }

\* the white space between "string filename" and its value
Separators == { <<SP>>, <<SP, SP>>, <<NL, SP>> }

SanitizeLines ==
    { <<StringFilename>> \o sep \o <<Q(p), NL>> :
        sep \in Separators, p \in SanitizePaths }
    \cup { <<Q(<<"string mapname">>), SP, Q(<<"tex", "\\", "a.png">>), NL>>,
           <<[q |-> FALSE, s |-> <<"# ", UploadsRoot, "models/", "0a1b2c3d-e5f6",
                                   "/textures/", "*2">>], NL>>,
           <<StringFilename, SP, Q(<<>>), NL>> }

MaxParams == 2

RECURSIVE SanitizeTextsOf(_)
SanitizeTextsOf(n) ==
    IF n = 0 THEN { <<>> }
    ELSE LET prev == SanitizeTextsOf(n - 1)
         IN  prev \cup { t \o l : t \in prev, l \in SanitizeLines }

InitSanitize ==
    /\ InitRender
    /\ NoTransformYet
    /\ uuid = "0a1b2c3d-e5f6"
    /\ texturesDir = NoDir
    /\ resolveText \in SanitizeTextsOf(MaxParams)
    /\ resolveOut = NotResolved
    /\ sanitizeOut = NotSanitized
    /\ assimpOut = <<>>
    /\ nono = NoFile
    /\ info = [pbrt_converted |-> FALSE, nono_available |-> FALSE,
               momo_available |-> FALSE]
    /\ convertResp = 0
    /\ lastRewrite = [ran |-> FALSE, alreadyConverted |-> FALSE, input |-> <<>>,
                      err |-> NoError]

\* one call  sanitizePbrtPaths(resolveText, baseDir, useRelativePath)
Sanitize(useRelativePath) ==
    /\ sanitizeOut' = [ran |-> TRUE, content |-> resolveText,
                       useRelativePath |-> useRelativePath,
                       text |-> sanitizePbrtPaths(resolveText, useRelativePath)]
    /\ UNCHANGED <<resolveText, resolveOut, convertVars, renderVars, transformVars,
                   concurrentVars>>

NextSanitize == \E useRelativePath \in BOOLEAN : Sanitize(useRelativePath)

SpecSanitize == InitSanitize /\ [][NextSanitize]_vars

\* ------------------------------------------------------------------------
\* The scene file of POST /v1/debug/render on its own
\* ------------------------------------------------------------------------
RenderRefLines ==
    RefLines
    \cup { <<StringFilename, SP,
             Q(<<UploadsRoot, "models/", id, "/textures/", star>>), NL>> :
           id \in ModelIds, star \in {"*0", "*2"} }

InitRenderScene ==
    /\ InitRender
    /\ NoTransformYet
    /\ uuid \in ModelIds
    /\ texturesDir \in ResolveDirs
    /\ resolveText \in { <<>> } \cup RenderRefLines
                       \cup { l1 \o l2 : l1 \in RenderRefLines, l2 \in RenderRefLines }
    /\ resolveOut = NotResolved
    /\ sanitizeOut = NotSanitized
    /\ assimpOut = <<>>
    /\ nono = NoFile
    /\ info = [pbrt_converted |-> FALSE, nono_available |-> FALSE,
               momo_available |-> FALSE]
    /\ convertResp = 0
    /\ lastRewrite = [ran |-> FALSE, alreadyConverted |-> FALSE, input |-> <<>>,
                      err |-> NoError]

\* the render handler from the submitted document resolveText to the scene
\* file it starts the renderer on
PrepareScene(chan) ==
    /\ resolveOut' = [ran |-> TRUE, input |-> resolveText, dir |-> texturesDir,
                      files |-> [k \in 1..Len(texturesDir.files) |->
                                    texturesDir.files[k].name],
                      text |-> HandedToRenderer(chan, resolveText, texturesDir, uuid)]
    /\ UNCHANGED <<resolveText, sanitizeOut, convertVars, renderVars, transformVars,
                   concurrentVars>>

NextRenderScene == \E chan \in {"file", "editor"} : PrepareScene(chan)

SpecRenderScene == InitRenderScene /\ [][NextRenderScene]_vars

\* ------------------------------------------------------------------------
\* POST /v1/transform : nono.pbrt rewritten into momo.pbrt
\* ------------------------------------------------------------------------
\* a bare token made of several atoms (a comment line up to its line end)
C(a) == [q |-> FALSE, s |-> a]

\* String.prototype.length of a token and of a text
RECURSIVE AtomsLen(_)
AtomsLen(a) == IF a = <<>> THEN 0 ELSE Len(Head(a)) + AtomsLen(Tail(a))
TokLen(t) == IF t.q THEN AtomsLen(t.s) + 2 ELSE AtomsLen(t.s)
RECURSIVE TextLen(_)
TextLen(text) ==
    IF text = <<>> THEN 0
    ELSE IF Len(text) = 1 THEN TokLen(text[1])
    ELSE TextLen(SubSeq(text, 1, Len(text) \div 2))
         + TextLen(SubSeq(text, Len(text) \div 2 + 1, Len(text)))
\* the index in the string of the first character of token i
Offset(text, i) == TextLen(SubSeq(text, 1, i - 1))

\* a transform component that the request does not give
Absent == <<>>

RECURSIVE Args(_)
Args(v) == IF v = <<>> THEN <<>> ELSE <<SP, W(Head(v))>> \o Args(Tail(v))

\* the lines pushed on transformCommands, in the order of the three ifs
transformCommands(translate, rotate, scale) ==
    (IF translate # Absent
     THEN << <<SP, SP, W("Translate")>> \o Args(translate) >> ELSE <<>>)
    \o (IF rotate # Absent
        THEN << <<SP, SP, W("Rotate")>> \o Args(rotate) >> ELSE <<>>)
    \o (IF scale # Absent
        THEN << <<SP, SP, W("Scale")>> \o Args(scale) >> ELSE <<>>)

\* transformCommands.join('\n')
RECURSIVE JoinLines(_)
JoinLines(lines) ==
    IF lines = <<>> THEN <<>>
    ELSE IF Len(lines) = 1 THEN lines[1]
    ELSE lines[1] \o <<NL>> \o JoinLines(Tail(lines))

\* Array.prototype.join(', ')
RECURSIVE JoinComma(_)
JoinComma(v) ==
    IF Len(v) = 1 THEN <<v[1]>> ELSE <<v[1], ", ">> \o JoinComma(Tail(v))

Timestamp == "<timestamp>"
ParamLine(label, v) ==
    IF v # Absent THEN C(<<label, "[">> \o JoinComma(v) \o <<"]">>)
    ELSE C(<<label, "none">>)

headerComment(translate, rotate, scale) ==
    << C(<<"# Transform applied on ", Timestamp>>), NL,
       W("# Parameters:"), NL,
       ParamLine("# - Translate: ", translate), NL,
       ParamLine("# - Rotate: ", rotate), NL,
       ParamLine("# - Scale: ", scale), NL,
       W("#-------------------------------------------"), NL, NL >>

OptOutMarker == "#[no-more-transformation]"
CommentAtoms == {OptOutMarker, "# object"}
IsComment(t) == (~t.q) /\ t.s[1] \in CommentAtoms
AttributeBegin == W("AttributeBegin")
AttributeEnd == W("AttributeEnd")

\* regex lookahead  (?=\s*Shape|\s*Material|\s*NamedMaterial|\s*LightSource|
\* \s*CoordSysTransform|\s*AttributeEnd)  at token i
BodyKeywords ==
    {"Shape", "Material", "NamedMaterial", "LightSource", "CoordSysTransform",
     "AttributeEnd"}
LookAhead(text, i) ==
    LET m == WSEnd(text, i)
    IN  m <= Len(text) /\ (~text[m].q) /\ text[m].s[1] \in BodyKeywords

\* regex  (?:[^\n]*\n)+?(?=...)  from token k : the first "\n" at or after k
\* that the lookahead follows, 0 when there is none
RECURSIVE LazyLines(_, _)
LazyLines(text, k) ==
    IF k > Len(text) THEN 0
    ELSE IF text[k] = NL /\ LookAhead(text, k + 1) THEN k
    ELSE LazyLines(text, k + 1)

RECURSIVE LastNL(_, _, _)
LastNL(text, lo, hi) ==
    IF hi < lo THEN 0
    ELSE IF text[hi] = NL THEN hi ELSE LastNL(text, lo, hi - 1)

\* regex  AttributeBegin\s*(?:[^\n]*\n)+?(?=...)  with AttributeBegin at token
\* j : the last token of the match, 0 when there is none.  \s* is greedy, so
\* it takes the line break after AttributeBegin and the indentation of the
\* next line, whose rest is then the first [^\n]*\n ; only when no lookahead
\* succeeds that way does \s* give white space back, down to its last "\n".
AttrBlockEnd(text, j) ==
    LET k0 == WSEnd(text, j + 1)
        greedy == LazyLines(text, k0)
    IN  IF greedy # 0 THEN greedy
        ELSE IF LookAhead(text, k0) THEN LastNL(text, j + 1, k0 - 1) ELSE 0

\* the match of attributePattern that starts at token i :
\*   (#.*\n)?\s*(AttributeBegin ...)
MatchAt(text, i) ==
    LET withComment == IsComment(text[i]) /\ i + 1 <= Len(text) /\ text[i + 1] = NL
        j == IF withComment THEN WSEnd(text, i + 2) ELSE WSEnd(text, i)
        ok == /\ withComment \/ IsWS(text[i]) \/ text[i] = AttributeBegin
              /\ j <= Len(text)
              /\ text[j] = AttributeBegin
        last == IF ok THEN AttrBlockEnd(text, j) ELSE 0
    IN  [found |-> last # 0, start |-> i, commentLen |-> IF withComment THEN 2 ELSE 0,
         begin |-> j, last |-> last]

NoMatch == [found |-> FALSE, start |-> 0, commentLen |-> 0, begin |-> 0, last |-> 0]

\* attributePattern.exec(pbrtContent) : the first match starting at a
\* character index >= lastIndex (no token of these scenes holds a # or white
\* space before AttributeBegin inside it, so a match starts at a token)
Exec(text, lastIndex) ==
    LET S == { i \in 1..Len(text) :
                 MatchAt(text, i).found /\ Offset(text, i) >= lastIndex }
    IN  IF S = {} THEN NoMatch ELSE MatchAt(text, Least(S))

\* commentLine.includes('#[no-more-transformation]')
HasOptOut(commentLine) ==
    commentLine # <<>> /\ Includes(commentLine[1].s, OptOutMarker)

\* /\s+Translate\s+/.test(attrBlock)  and the two others
HasCommand(attrBlock, cmd) ==
    \E k \in 2..(Len(attrBlock) - 1) :
        attrBlock[k] = W(cmd) /\ IsWS(attrBlock[k - 1]) /\ IsWS(attrBlock[k + 1])

\* the largest attrBlock.lastIndexOf(cmd) over the three commands, as a
\* token index (0 for -1)
RECURSIVE LastCommand(_, _)
LastCommand(attrBlock, k) ==
    IF k = 0 THEN 0
    ELSE IF attrBlock[k] \in {W("Translate"), W("Rotate"), W("Scale")} THEN k
    ELSE LastCommand(attrBlock, k - 1)

\* attrBlock.indexOf('\n', lastPos)
RECURSIVE IndexOfNL(_, _)
IndexOfNL(text, k) ==
    IF k > Len(text) THEN 0
    ELSE IF text[k] = NL THEN k ELSE IndexOfNL(text, k + 1)

ReplacementText(commentLine, attrBlock, transformStr) ==
    IF \E cmd \in {"Translate", "Rotate", "Scale"} : HasCommand(attrBlock, cmd)
    THEN LET lastPos == LastCommand(attrBlock, Len(attrBlock))
             lineEnd == IndexOfNL(attrBlock, lastPos)
         IN  IF lastPos # 0
             THEN IF lineEnd # 0
                  THEN commentLine \o SubSeq(attrBlock, 1, lineEnd)
                       \o transformStr \o <<NL>>
                       \o SubSeq(attrBlock, lineEnd + 1, Len(attrBlock))
                  ELSE commentLine \o attrBlock \o <<NL>> \o transformStr \o <<NL>>
             ELSE commentLine \o attrBlock \o transformStr \o <<NL>>
    ELSE commentLine \o attrBlock \o transformStr \o <<NL>>

\* the token indexes where pat occurs in text
Occurrences(text, pat) ==
    { i \in 1..(Len(text) - Len(pat) + 1) : SubSeq(text, i, i + Len(pat) - 1) = pat }

\* String.prototype.indexOf(pat) (0 when absent)
IndexOfSeq(text, pat) ==
    IF Occurrences(text, pat) = {} THEN 0 ELSE Least(Occurrences(text, pat))

\* the replacement at the match's own place in the text
ReplaceAt(text, i, pat, rep) ==
    SubSeq(text, 1, i - 1) \o rep \o SubSeq(text, i + Len(pat), Len(text))

\* modifiedContent.replace(fullMatch, replacementText) : a string pattern
\* replaces its first occurrence
ReplaceFirstSeq(text, pat, rep) ==
    LET i == IndexOfSeq(text, pat)
    IN  IF i = 0 THEN text ELSE ReplaceAt(text, i, pat, rep)

\* the while loop over attributePattern.exec(pbrtContent)
RECURSIVE TransformLoop(_, _, _, _)
TransformLoop(pbrtContent, modifiedContent, lastIndex, lines) ==
    LET m == Exec(pbrtContent, lastIndex)
        fullMatch == SubSeq(pbrtContent, m.start, m.last)
        commentLine == SubSeq(pbrtContent, m.start, m.start + m.commentLen - 1)
        attrBlock == SubSeq(pbrtContent, m.begin, m.last)
        matchEnd == Offset(pbrtContent, m.last + 1)
        replacementText == ReplacementText(commentLine, attrBlock, JoinLines(lines))
    IN  IF ~m.found THEN modifiedContent
        ELSE IF HasOptOut(commentLine) \/ lines = <<>>
             THEN TransformLoop(pbrtContent, modifiedContent, matchEnd, lines)
             ELSE TransformLoop(pbrtContent,
                      ReplaceFirstSeq(modifiedContent, fullMatch, replacementText),
                      matchEnd + (TextLen(replacementText) - TextLen(fullMatch)),
                      lines)

\* finalContent.replace(/AttributeEndAttributeBegin/g, "AttributeEnd\nAttributeBegin")
RECURSIVE FixAdjacent(_)
FixAdjacent(text) ==
    LET i == IndexOfSeq(text, <<AttributeEnd, AttributeBegin>>)
    IN  IF i = 0 THEN text
        ELSE SubSeq(text, 1, i) \o <<NL>> \o FixAdjacent(SubSeq(text, i + 1, Len(text)))

\* the text written to momo.pbrt
TransformNono(pbrtContent, translate, rotate, scale, dir, modelId) ==
    LET lines == transformCommands(translate, rotate, scale)
        modifiedContent == TransformLoop(pbrtContent, pbrtContent, 0, lines)
        finalContent == headerComment(translate, rotate, scale) \o modifiedContent
        fixedContent == FixAdjacent(finalContent)
        relativePathContent == sanitizePbrtPaths(fixedContent, TRUE)
    IN  replaceTextureReferences(relativePathContent, dir, modelId)

\* Bounded inputs: scenes made of whole blocks, and the number of transform
\* requests that get past the checks
MaxBlocks == 3
MaxTransforms == 1

ShapeLine == <<SP, SP, W("Shape"), SP, Q(<<"sphere">>), NL>>
SceneBlocks ==
    { <<AttributeBegin, NL>> \o ShapeLine \o <<AttributeEnd, NL>>,
      <<AttributeBegin, NL, SP, SP, W("NamedMaterial"), SP, Q(<<"m">>), NL>>
          \o ShapeLine \o <<AttributeEnd, NL>>,
      <<AttributeBegin, NL, SP, SP, W("Translate"), SP, W("1"), SP, W("0"), SP,
        W("0"), NL>> \o ShapeLine \o <<AttributeEnd, NL>>,
      <<AttributeBegin, NL, SP, SP, W("Shape"), SP, Q(<<"plymesh">>), SP,
        StringFilename, SP,
        Q(<<UploadsRoot, "models/", "0a1b2c3d-e5f6", "/textures/", "*0">>), NL,
        AttributeEnd, NL>>,
      <<W(OptOutMarker), NL>>,
      <<W("# object"), NL>>,
      <<AttributeEnd, NL>>,
      <<AttributeBegin, NL>> \o ShapeLine }

RECURSIVE ScenesOf(_)
ScenesOf(n) ==
    IF n = 0 THEN { <<>> }
    ELSE LET prev == ScenesOf(n - 1)
         IN  prev \cup { t \o b : t \in prev, b \in SceneBlocks }

Translates == { Absent, <<"1", "0", "0">>, <<"1", "0">> }
Rotates == { Absent, <<"90", "0", "1", "0">> }
Scales == { Absent, <<"2", "2", "2">> }

InitTransform ==
    /\ InitRender
    /\ resolveText = <<>>
    /\ resolveOut = NotResolved
    /\ sanitizeOut = NotSanitized
    /\ NoTransformYet
    /\ uuid = "0a1b2c3d-e5f6"
    /\ texturesDir \in ConvertDirs
    /\ assimpOut = <<>>
    /\ nono \in { NoFile } \cup { File(t) : t \in ScenesOf(MaxBlocks) }
    /\ info = [pbrt_converted |-> nono.exists, nono_available |-> nono.exists,
               momo_available |-> FALSE]
    /\ convertResp = 0
    /\ lastRewrite = [ran |-> FALSE, alreadyConverted |-> FALSE, input |-> <<>>,
                      err |-> NoError]

\* a component that is given is an array of the right length
WellFormed(translate, rotate, scale) ==
    /\ translate = Absent \/ Len(translate) = 3
    /\ rotate = Absent \/ Len(rotate) = 4
    /\ scale = Absent \/ Len(scale) = 3

\* POST /v1/transform with a component of the wrong length: answered 400
TransformBadRequest ==
    \E translate \in Translates, rotate \in Rotates, scale \in Scales :
        /\ ~WellFormed(translate, rotate, scale)
        /\ transformResp' = 400
        /\ UNCHANGED <<momo, lastTransform, convertVars, resolveVars, renderVars,
                       concurrentVars>>

\* POST /v1/transform for a model without nono.pbrt: answered 404
TransformNotFound ==
    \E translate \in Translates, rotate \in Rotates, scale \in Scales :
        /\ WellFormed(translate, rotate, scale)
        /\ ~nono.exists
        /\ transformResp' = 404
        /\ UNCHANGED <<momo, lastTransform, convertVars, resolveVars, renderVars,
                       concurrentVars>>

\* POST /v1/transform past its checks: momo.pbrt is written, info.json gets
\* momo_available, the request is answered 200
Transform ==
    \E translate \in Translates, rotate \in Rotates, scale \in Scales :
        /\ WellFormed(translate, rotate, scale)
        /\ nono.exists
        /\ lastTransform.count < MaxTransforms
        /\ momo' = File(TransformNono(nono.text, translate, rotate, scale,
                                      texturesDir, uuid))
        /\ texturesDir' = DirAfterFix(texturesDir)
        /\ info' = [info EXCEPT !.momo_available = TRUE]
        /\ transformResp' = 200
        /\ lastTransform' = [ran |-> TRUE, count |-> lastTransform.count + 1,
                             input |-> nono.text,
                             translate |-> translate, rotate |-> rotate,
                             scale |-> scale]
        /\ UNCHANGED <<uuid, assimpOut, nono, convertResp, lastRewrite, resolveVars,
                       renderVars, concurrentVars>>

NextTransform == TransformBadRequest \/ TransformNotFound \/ Transform

SpecTransform == InitTransform /\ [][NextTransform]_vars

\* ------------------------------------------------------------------------
\* GET /v1/convert/:uuid requests that overlap, and DELETE /v1/model/:uuid
\* ------------------------------------------------------------------------
\* the handler runs up to its await of execFile in one piece, and from the
\* exit of the converter to its answer in another
InitConcurrent ==
    /\ InitRender
    /\ resolveText = <<>>
    /\ resolveOut = NotResolved
    /\ sanitizeOut = NotSanitized
    /\ NoTransformYet
    /\ uuid \in ModelIds
    /\ texturesDir \in ConvertDirs
    /\ assimpOut \in TextsOf(1)
    /\ nono = NoFile
    /\ info = [pbrt_converted |-> FALSE, nono_available |-> FALSE,
               momo_available |-> FALSE]
    /\ convertResp = 0
    /\ lastRewrite = [ran |-> FALSE, alreadyConverted |-> FALSE, input |-> <<>>,
                      err |-> NoError]

\* a convert request for a model whose directory is gone: answered 404
ConvertNoModel(r) ==
    /\ convReq[r].pc = "idle"
    /\ ~modelDir
    /\ convReq' = [convReq EXCEPT ![r] = [pc |-> "done", resp |-> 404]]
    /\ convertResp' = 404
    /\ UNCHANGED <<uuid, texturesDir, assimpOut, nono, info, lastRewrite, modelDir,
                   resolveVars, transformVars, renderVars>>

\* a convert request that finds no nono.pbrt: it makes the textures
\* directory and starts the converter, whose exit it awaits
ConvertStarts(r) ==
    /\ convReq[r].pc = "idle"
    /\ modelDir
    /\ ~nono.exists
    /\ convReq' = [convReq EXCEPT ![r] = [pc |-> "converting", resp |-> 0]]
    /\ texturesDir' = EnsureDir(texturesDir)
    /\ UNCHANGED <<uuid, assimpOut, nono, info, convertResp, lastRewrite, modelDir,
                   resolveVars, transformVars, renderVars>>

\* the rest of the handler from the text of nono.pbrt on: the rewrite try
\* block, the flags, the answer
ConvertAnswers(r, pbrtContent, alreadyConverted) ==
    LET w == RewriteNono(pbrtContent, uuid, texturesDir)
        resolved == w.err = NoError /\ IndexOf(pbrtContent, TexturesMarker, 1) # 0
    IN  /\ nono' = File(w.text)
        /\ lastRewrite' = [ran |-> TRUE, alreadyConverted |-> alreadyConverted,
                           input |-> pbrtContent, err |-> w.err]
        /\ info' = [pbrt_converted |-> TRUE, nono_available |-> TRUE,
                    momo_available |-> FALSE]
        /\ convertResp' = 200
        /\ texturesDir' = IF resolved THEN DirAfterFix(texturesDir) ELSE texturesDir
        /\ convReq' = [convReq EXCEPT ![r] = [pc |-> "done", resp |-> 200]]
        /\ UNCHANGED <<uuid, assimpOut, modelDir, resolveVars, transformVars, renderVars>>

\* a convert request that finds nono.pbrt: no await, the handler runs to
\* its answer
ConvertAgain(r) ==
    /\ convReq[r].pc = "idle"
    /\ modelDir
    /\ nono.exists
    /\ ConvertAnswers(r, nono.text, TRUE)

\* the converter of request r exits having written its output, which the
\* handler renames to nono.pbrt and rewrites
ConverterSucceeds(r) ==
    /\ convReq[r].pc = "converting"
    /\ modelDir
    /\ ConvertAnswers(r, assimpOut, FALSE)

\* the converter of request r fails, or leaves no nono.pbrt: answered 500
ConverterFails(r) ==
    /\ convReq[r].pc = "converting"
    /\ convReq' = [convReq EXCEPT ![r] = [pc |-> "done", resp |-> 500]]
    /\ convertResp' = 500
    /\ UNCHANGED <<uuid, texturesDir, assimpOut, nono, info, lastRewrite, modelDir,
                   resolveVars, transformVars, renderVars>>

\* DELETE /v1/model/:uuid : fs.rmSync of the model directory
DeleteModel ==
    /\ modelDir
    /\ modelDir' = FALSE
    /\ nono' = NoFile
    /\ texturesDir' = NoDir
    /\ info' = [pbrt_converted |-> FALSE, nono_available |-> FALSE,
                momo_available |-> FALSE]
    /\ momo' = NoFile
    /\ UNCHANGED <<uuid, assimpOut, convertResp, lastRewrite, convReq, resolveVars,
                   transformResp, lastTransform, renderVars>>

NextConcurrent ==
    \/ \E r \in Converts : ConvertNoModel(r)
    \/ \E r \in Converts : ConvertStarts(r)
    \/ \E r \in Converts : ConvertAgain(r)
    \/ \E r \in Converts : ConverterSucceeds(r)
    \/ \E r \in Converts : ConverterFails(r)
    \/ DeleteModel

SpecConcurrent == InitConcurrent /\ [][NextConcurrent]_vars

\* POST /v1/model with a single model file and an info object that names
\* the uuid of a directory that does not exist: the directory is made with
\* the model file in it, and info.json is written with every field of the
\* client's info object; flags tells whether the object carries the flags
\* pbrt_converted, nono_available and momo_available set (a flag that is
\* not sent is absent, which reads as false)
UploadModel(flags) ==
    /\ ~modelDir
    /\ \A r \in Converts : convReq[r].pc # "converting"
    /\ modelDir' = TRUE
    /\ nono' = NoFile
    /\ momo' = NoFile
    /\ texturesDir' = NoDir
    /\ info' = [pbrt_converted |-> flags, nono_available |-> flags,
                momo_available |-> flags]
    /\ UNCHANGED <<uuid, assimpOut, convertResp, lastRewrite, convReq, resolveVars,
                   transformResp, lastTransform, renderVars>>

\* uploads, convert requests that find no nono.pbrt, transform requests and
\* deletions of one model identifier in any order (a convert request that
\* finds nono.pbrt is ConvertAgain of SpecConcurrent)
NextLifecycle ==
    \/ NextTransform
    \/ DeleteModel
    \/ \E flags \in BOOLEAN : UploadModel(flags)
    \/ \E r \in Converts : ConvertNoModel(r)
    \/ \E r \in Converts : ConvertStarts(r)
    \/ \E r \in Converts : ConverterSucceeds(r)
    \/ \E r \in Converts : ConverterFails(r)

\* a model that was uploaded and not converted yet, whose converter will
\* write one object
InitLifecycle ==
    /\ InitRender
    /\ resolveText = <<>>
    /\ resolveOut = NotResolved
    /\ sanitizeOut = NotSanitized
    /\ NoTransformYet
    /\ uuid = "0a1b2c3d-e5f6"
    /\ texturesDir = NoDir
    /\ assimpOut = <<AttributeBegin, NL>> \o ShapeLine \o <<AttributeEnd, NL>>
    /\ nono = NoFile
    /\ info = [pbrt_converted |-> FALSE, nono_available |-> FALSE,
               momo_available |-> FALSE]
    /\ convertResp = 0
    /\ lastRewrite = [ran |-> FALSE, alreadyConverted |-> FALSE, input |-> <<>>,
                      err |-> NoError]

SpecLifecycle == InitLifecycle /\ [][NextLifecycle]_vars

\* the event loop runs every handler that is ready; execFile('assimp', ...)
\* is given no timeout option, so nothing makes the converter exit
SpecConcurrentLive ==
    SpecConcurrent
    /\ \A r \in Converts :
          WF_vars(ConvertNoModel(r) \/ ConvertStarts(r) \/ ConvertAgain(r))

\* ------------------------------------------------------------------------
\* POST /v1/debug/render
\* ------------------------------------------------------------------------
\* the handler from its start to  await execFile(pbrt) : cache lookup,
\* security check, sanitized scene file, renderer spawned
Arrive(r, chan, sceneId, currentHash, lastHash) ==
    LET content == RenderScenes[sceneId]
        entry == CacheLookup(cache, currentHash)
        uploaded == IF chan = "file"
                    THEN [pbrtFiles EXCEPT ![<<"file", instant>>] = Pbrt(sceneId, content)]
                    ELSE pbrtFiles
        seen == [NewReq EXCEPT !.atLookup = BytesOf(cache[CachePath(currentHash)]),
                               !.prior = rendered[CachePath(currentHash)],
                               !.suspicious = hasSuspiciousPbrtPaths(content),
                               !.valid = (chan # "none")]
        answered(status) == [seen EXCEPT !.pc = "done", !.status = status]
    IN  /\ req[r].pc = "new"
        /\ \A q \in Reqs : q < r => req[q].pc # "new"
        /\ IF entry.present
           THEN /\ req' = [req EXCEPT ![r] =
                             [answered(200) EXCEPT !.xcache = "HIT", !.body = entry.img]]
                /\ pbrtFiles' = uploaded
           ELSE IF chan = "none"
           THEN /\ req' = [req EXCEPT ![r] = answered(400)]
                /\ pbrtFiles' = uploaded
           ELSE IF hasSuspiciousPbrtPaths(content)
           THEN /\ req' = [req EXCEPT ![r] = answered(403)]
                /\ pbrtFiles' = [uploaded EXCEPT ![<<"file", instant>>] =
                                    IF chan = "file" THEN NoPbrt ELSE @]
           ELSE /\ req' = [req EXCEPT ![r] =
                             [seen EXCEPT !.pc = "rendering", !.hash = currentHash,
                                          !.lastHash = lastHash, !.chan = chan,
                                          !.scene = sceneId, !.ts = instant,
                                          !.pbrt = "spawned"]]
                /\ pbrtFiles' = [uploaded EXCEPT ![<<chan, instant>>] =
                                    Pbrt(sceneId, HandedToRenderer(chan, content, texturesDir, uuid))]
        /\ UNCHANGED <<now, instant, cache, outFiles, rendered, sweepThrew, convertVars, resolveVars, transformVars, concurrentVars>>

\* the renderer process of request r: it reads its scene file and starts to
\* write --outfile, then completes it
PbrtStep(r) ==
    LET q == req[r]
        input == pbrtFiles[<<q.chan, q.ts>>]
    IN  /\ q.pc = "rendering"
        /\ \/ /\ q.pbrt = "spawned"
              /\ input.exists
              /\ req' = [req EXCEPT ![r].pbrt = "partial", ![r].rin = input.scene]
              /\ outFiles' = [outFiles EXCEPT ![q.ts] = Exr(Img(input.scene, FALSE))]
           \/ /\ q.pbrt = "spawned"
              /\ ~input.exists
              /\ req' = [req EXCEPT ![r].pbrt = "noinput"]
              /\ UNCHANGED outFiles
           \/ /\ q.pbrt = "partial"
              /\ req' = [req EXCEPT ![r].pbrt = "complete"]
              /\ outFiles' = [outFiles EXCEPT ![q.ts] = Exr(Img(q.rin, TRUE))]
        /\ UNCHANGED <<now, instant, cache, pbrtFiles, rendered, sweepThrew, convertVars, resolveVars, transformVars, concurrentVars>>

\* a finally block that unlinks the entry of lastHash even when lastHash is
\* the request's own hash
AfterFinallyOwnHash(c, out, currentHash, lastHash, t) ==
    LET saved == IF out.exists
                 THEN [c EXCEPT ![CachePath(currentHash)] = Entry(out.img, t)]
                 ELSE c
    IN  IF lastHash # "" /\ saved[lastHash].present
        THEN [saved EXCEPT ![lastHash] = NoEntry]
        ELSE saved

\* the cache after the finally block of a request: the output file, when
\* there is one, is copied to the cache path, then the entry of lastHash is
\* unlinked
AfterFinally(c, out, currentHash, lastHash, t) ==
    LET saved == IF out.exists
                 THEN [c EXCEPT ![CachePath(currentHash)] = Entry(out.img, t)]
                 ELSE c
    IN  IF lastHash # "" /\ lastHash # currentHash /\ saved[lastHash].present
        THEN [saved EXCEPT ![lastHash] = NoEntry]
        ELSE saved

\* the handler from the end of  await execFile(pbrt)  on: ok is exit code 0,
\* ~ok is a non-zero exit or the kill at the 60 s timeout
Resume(r, ok) ==
    LET q == req[r]
        out == outFiles[q.ts]
        stored == ok /\ out.exists
        written == IF stored
                   THEN [cache EXCEPT ![CachePath(q.hash)] = Entry(out.img, now)]
                   ELSE cache
    IN  /\ q.pc = "rendering"
        /\ ok => q.pbrt \in {"spawned", "complete"}
        /\ req' = [req EXCEPT ![r] =
                     [NewReq EXCEPT !.pc = "done",
                                    !.atLookup = q.atLookup, !.prior = q.prior,
                                    !.suspicious = q.suspicious, !.valid = q.valid,
                                    !.status = IF stored THEN 200 ELSE 500,
                                    !.xcache = IF stored THEN "MISS" ELSE "",
                                    !.body = IF stored THEN out.img ELSE NoImg]]
        /\ cache' = AfterFinally(written, out, q.hash, q.lastHash, now)
        /\ rendered' = IF stored
                       THEN [rendered EXCEPT ![CachePath(q.hash)] = Bytes(out.img)]
                       ELSE rendered
        /\ pbrtFiles' = [pbrtFiles EXCEPT ![<<q.chan, q.ts>>] = NoPbrt]
        /\ UNCHANGED <<now, instant, outFiles, sweepThrew, convertVars, resolveVars, transformVars, concurrentVars>>

\* cleanupInterval : every entry of the cache directory older than 7 days
\* is unlinked
Sweep ==
    /\ cache' = [k \in CacheKeys |->
                    IF cache[k].present /\ Expired(now, cache[k].mtime)
                    THEN NoEntry ELSE cache[k]]
    /\ UNCHANGED <<now, instant, outFiles, pbrtFiles, req, rendered, sweepThrew, convertVars, resolveVars, transformVars, concurrentVars>>

\* a sweep that throws and takes a request to a failure, as a sweep whose
\* exception reached a request handler would
SweepThrowsIntoRequest ==
    \E r \in Reqs :
        /\ req[r].pc = "rendering"
        /\ req' = [req EXCEPT ![r].pc = "done", ![r].status = 500]
        /\ sweepThrew' = TRUE
        /\ UNCHANGED <<now, instant, cache, outFiles, pbrtFiles, rendered, convertVars, resolveVars, transformVars, concurrentVars>>

\* cleanupInterval, when statSync or unlinkSync throws at an entry of the
\* listing (the entry at): the entries listed before it (done) have been
\* swept, the others are left as they are; the exception ends the callback
\* and is logged by the handler of uncaughtException
SweepThrows ==
    \E done \in SUBSET CacheKeys :
        /\ \E at \in CacheKeys \ done : cache[at].present
        /\ cache' = [k \in CacheKeys |->
                        IF k \in done /\ cache[k].present
                                      /\ Expired(now, cache[k].mtime)
                        THEN NoEntry ELSE cache[k]]
        /\ sweepThrew' = TRUE
        /\ UNCHANGED <<now, instant, outFiles, pbrtFiles, req, rendered, convertVars, resolveVars, transformVars, concurrentVars>>

\* the clock advances within the day; instants are counted from the first
\* one of the day that names a file
Tock ==
    /\ instant < MaxInstant
    /\ \/ outFiles[instant].exists
       \/ \E chan \in {"file", "editor"} : pbrtFiles[<<chan, instant>>].exists
    /\ instant' = instant + 1
    /\ UNCHANGED <<now, cache, outFiles, pbrtFiles, req, rendered, sweepThrew, convertVars, resolveVars, transformVars, concurrentVars>>

\* the clock advances by a day; a render lasts at most its 60 s timeout,
\* and no request is taken to be rendering across the change of day
Tick ==
    /\ now < MaxNow
    /\ \A r \in Reqs : req[r].pc # "rendering"
    /\ now' = now + 1
    /\ instant' = 0
    /\ outFiles' = [t \in Times |-> NoExr]
    /\ pbrtFiles' = [f \in PbrtPaths |-> NoPbrt]
    /\ UNCHANGED <<cache, req, rendered, sweepThrew, convertVars, resolveVars, transformVars, concurrentVars>>

Init == InitRender /\ InitModel

Next ==
    \/ \E r \in Reqs, chan \in Channels, sceneId \in SceneIds,
          currentHash \in HashFields, lastHash \in LastHashes :
          Arrive(r, chan, sceneId, currentHash, lastHash)
    \/ \E r \in Reqs : PbrtStep(r)
    \/ \E r \in Reqs, ok \in BOOLEAN : Resume(r, ok)
    \/ Sweep
    \/ Tock
    \/ Tick

Spec == Init /\ [][Next]_vars

\* the render service with the sweeps that throw
NextSweep == Next \/ SweepThrows

SpecSweep == Init /\ [][NextSweep]_vars

\* ------------------------------------------------------------------------
\* The render cache (C1 - C6)
\* ------------------------------------------------------------------------
\* the handler of request r returns from  await execFile  in this step
Finishes(r) == req[r].pc = "rendering" /\ req'[r].pc = "done"

\* C1: of the requests in flight with one fingerprint, at most one has
\* invoked the renderer; the others wait for its result.
OneRenderPerFingerprint ==
    \A r1, r2 \in Reqs :
        (/\ r1 # r2
         /\ req[r1].pc = "rendering"
         /\ req[r2].pc = "rendering")
            => CachePath(req[r1].hash) # CachePath(req[r2].hash)

\* C2 (as stated): a submission that arrives after a render of its
\* fingerprint has succeeded is answered with the bytes that render stored,
\* and the renderer is not invoked for it.
SecondSubmissionIsHit ==
    \A r \in Reqs :
        (req[r].pc # "new" /\ req[r].valid /\ req[r].prior.present)
            => /\ req[r].xcache = "HIT"
               /\ req[r].body = req[r].prior.img
               /\ req[r].pbrt = "none"

\* C2 (amended): a request whose fingerprint has an entry in the cache when
\* the handler looks it up is answered 200 with X-Cache HIT and exactly the
\* bytes of that entry, and the renderer is not invoked for it.
PresentEntryIsHit ==
    \A r \in Reqs :
        req[r].atLookup.present
            => /\ req[r].pc = "done"
               /\ req[r].status = 200
               /\ req[r].xcache = "HIT"
               /\ req[r].body = req[r].atLookup.img
               /\ req[r].pbrt = "none"

\* a request found an entry under its fingerprint and was answered from it
HitAnswered ==
    \E r \in Reqs :
        req[r].atLookup.present /\ req[r].valid /\ req[r].xcache = "HIT"

\* C3: when the renderer of a request fails (the request is answered 500),
\* the cache has an entry for the request's fingerprint afterwards only if
\* it had one before.
NoEntryOnFailure ==
    [][\A r \in Reqs :
          (Finishes(r) /\ req'[r].status = 500)
              => (cache'[CachePath(req[r].hash)].present
                    => cache[CachePath(req[r].hash)].present)]_vars

\* C4: every cache entry stored under fingerprint h holds the image of a
\* scene whose bytes hash to h.
KeyIsContentHash ==
    \A k \in CacheKeys :
        cache[k].present => Sha256Hex(cache[k].img.scene) = k

\* C5: a request answered from the cache receives a complete image that a
\* render wrote for its fingerprint, never a partially written one.
HitIsComplete ==
    \A r \in Reqs : req[r].xcache = "HIT" => req[r].body.complete

\* C6 (as stated): a cache entry is removed only by the sweep, and only
\* when its age exceeds the retention window of 7 days; no step of a render
\* request removes one.
OnlySweepRemoves ==
    [][\A k \in CacheKeys :
          (cache[k].present /\ ~cache'[k].present)
              => (req' = req /\ now - cache[k].mtime > RetentionDays)]_vars

\* C6 (amended): a cache entry is removed only by the sweep when its age
\* exceeds the retention window of 7 days, or by the finally block of a
\* render request whose lastHash names the entry and differs from the
\* request's own hash.
OnlySweepOrLastHashRemoves ==
    [][\A k \in CacheKeys :
          (cache[k].present /\ ~cache'[k].present)
              => \/ (req' = req /\ now - cache[k].mtime > RetentionDays)
                 \/ \E r \in Reqs : /\ Finishes(r)
                                     /\ req[r].lastHash = k
                                     /\ req[r].lastHash # req[r].hash]_vars

\* an entry a render had stored is gone from the cache
StoredEntryRemoved ==
    \E k \in CacheKeys : rendered[k].present /\ ~cache[k].present

\* ------------------------------------------------------------------------
\* The security check (C7, C8)
\* ------------------------------------------------------------------------
\* the text has a filename parameter ("string filename" "<path>") whose path
\* is a parent-directory traversal, home-relative, a system path or a
\* network path
SuspiciousFilenameParam(text) ==
    \E i \in 1..Len(text) :
        /\ text[i] = StringFilename
        /\ NextQ(text, i + 1) # 0
        /\ \E p \in SuspiciousPrefixes : IsPrefix(p, text[NextQ(text, i + 1)].s)

\* C7: a document with a suspicious filename parameter is rejected: the
\* renderer is never invoked for it.
SuspiciousRejected ==
    \A r \in Reqs :
        req[r].pc = "rendering"
            => ~SuspiciousFilenameParam(RenderScenes[req[r].scene])

\* C8: the check runs before the cache lookup: a document in which
\* hasSuspiciousPbrtPaths finds a suspicious path is never answered from
\* the cache.
SuspiciousNeverHit ==
    \A r \in Reqs : req[r].xcache = "HIT" => ~req[r].suspicious

\* ------------------------------------------------------------------------
\* C9 : idempotence of the convert-time rename
\* ------------------------------------------------------------------------
\* C9: running the rewrite on a text it has already rewritten (a convert of
\* an already converted model, same prefix) leaves nono.pbrt as it was.
RenameIdempotent ==
    (lastRewrite.ran /\ lastRewrite.alreadyConverted)
        => nono.text = lastRewrite.input

\* the name is one the first run gave the prefix to
PrefixedByRewrite(t) ==
    /\ t.q
    /\ Len(t.s) >= 2
    /\ t.s[1] = PrefixOf(uuid)
    /\ \A k \in 1..Len(assimpOut) : assimpOut[k] # t

\* the rewrite has run a second time on a text whose names the first run
\* had prefixed
RewrittenTwice ==
    /\ lastRewrite.ran
    /\ lastRewrite.alreadyConverted
    /\ lastRewrite.err = NoError
    /\ \E i \in 1..Len(nono.text) : PrefixedByRewrite(nono.text[i])

\* ------------------------------------------------------------------------
\* C10 : more than one anonymous material
\* ------------------------------------------------------------------------
\* the positions from position from on of the anonymous material
\* definitions (MakeNamedMaterial "") of the text
AnonymousDefs(text, from) ==
    { i \in from..Len(text) :
        /\ text[i] = W("MakeNamedMaterial")
        /\ NextQ(text, i + 1) # 0
        /\ text[NextQ(text, i + 1)].s = <<>> }

\* those of them that white space follows
AnonymousDefsSpaced(text, from) ==
    { i \in AnonymousDefs(text, from) :
        /\ NextQ(text, i + 1) < Len(text)
        /\ IsWS(text[NextQ(text, i + 1) + 1]) }

\* C10 (as stated): for a text with two or more anonymous material
\* definitions the rewrite fails with AmbiguousRename and nono.pbrt is what
\* it was before.
AmbiguousAllOrNothing ==
    (lastRewrite.ran /\ Cardinality(AnonymousDefs(lastRewrite.input, 1)) >= 2)
        => /\ lastRewrite.err = AmbiguousRename
           /\ nono.text = lastRewrite.input

\* C10 (amended): for a text that has the "# Textures" marker and, from the
\* marker on, two or more anonymous material definitions each followed by
\* white space, the rewrite fails with AmbiguousRename and nono.pbrt is what
\* it was before.
AmbiguousAfterMarkerAllOrNothing ==
    (/\ lastRewrite.ran
     /\ IndexOf(lastRewrite.input, TexturesMarker, 1) # 0
     /\ Cardinality(AnonymousDefsSpaced(
                        lastRewrite.input,
                        IndexOf(lastRewrite.input, TexturesMarker, 1))) >= 2)
        => /\ lastRewrite.err = AmbiguousRename
           /\ nono.text = lastRewrite.input

\* the rewrite has failed on two anonymous definitions and nono.pbrt is
\* the converter's output still
AmbiguousRejected ==
    /\ lastRewrite.ran
    /\ lastRewrite.err = AmbiguousRename
    /\ Cardinality(AnonymousDefs(lastRewrite.input, 1)) >= 2
    /\ nono.text = lastRewrite.input

\* ------------------------------------------------------------------------
\* C11 : the flags of a convert whose rewrite failed
\* ------------------------------------------------------------------------
\* C11: when the rewrite of the last convert request failed, the request
\* was not answered with success and the flags nono_available and
\* pbrt_converted are not set.
FlagsOnlyAfterRewrite ==
    (lastRewrite.ran /\ lastRewrite.err # NoError)
        => /\ convertResp # 200
           /\ ~info.nono_available
           /\ ~info.pbrt_converted

\* ------------------------------------------------------------------------
\* C12 : definitions and references are renamed together
\* ------------------------------------------------------------------------
\* the positions of the directives  <word> "<name>"  of the text
Uses(text, word, name) ==
    { i \in 1..Len(text) :
        /\ text[i] = W(word)
        /\ NextQ(text, i + 1) # 0
        /\ text[NextQ(text, i + 1)].s = name }

\* the positions of the parameters  "texture ..." "<name>"  of the text
TextureUses(text, name) ==
    { i \in 1..Len(text) :
        /\ IsTextureParam(text[i])
        /\ NextQ(text, i + 1) # 0
        /\ text[NextQ(text, i + 1)].s = name }

\* the uses of the original name in the text before are uses of the new
\* name in the text after (with those it had before, and those of another
\* name that is given the same new name), and the text after has no use of
\* the original
Moved(before, after, word, originalName, newName) ==
    /\ Uses(after, word, originalName) = {}
    /\ Cardinality(Uses(after, word, newName))
          >= Cardinality(Uses(before, word, originalName))
             + Cardinality(Uses(before, word, newName))
    /\ Cardinality({ i \in 1..Len(after) : after[i] = W(word) })
          = Cardinality({ i \in 1..Len(before) : before[i] = W(word) })

MovedTextureUses(before, after, originalName, newName) ==
    /\ TextureUses(after, originalName) = {}
    /\ Cardinality(TextureUses(after, newName))
          >= Cardinality(TextureUses(before, originalName))
             + Cardinality(TextureUses(before, newName))
    /\ Cardinality({ i \in 1..Len(after) : IsTextureParam(after[i]) })
          = Cardinality({ i \in 1..Len(before) : IsTextureParam(before[i]) })

\* the last run of the rewrite was the first one of its model, it found the
\* marker and ended without error
FirstRewriteDone ==
    /\ lastRewrite.ran
    /\ ~lastRewrite.alreadyConverted
    /\ lastRewrite.err = NoError
    /\ IndexOf(lastRewrite.input, TexturesMarker, 1) # 0

\* the text the rename works on: the input from the marker on
RewriteCut ==
    SubSeq(lastRewrite.input, IndexOf(lastRewrite.input, TexturesMarker, 1),
           Len(lastRewrite.input))

\* the names of the rename maps are renamed in definitions and references
NamedRenamedTogether ==
    LET prefix == PrefixOf(uuid)
        textureMap == TextureMap(RewriteCut, 1, <<>>, prefix)
        materialMap == MaterialMap(RewriteCut, 1, <<>>, prefix)
    IN  /\ \A k \in 1..Len(textureMap) :
              /\ Moved(RewriteCut, nono.text, "Texture",
                       textureMap[k][1], textureMap[k][2])
              /\ MovedTextureUses(RewriteCut, nono.text,
                                  textureMap[k][1], textureMap[k][2])
        /\ \A k \in 1..Len(materialMap) :
              /\ Moved(RewriteCut, nono.text, "MakeNamedMaterial",
                       materialMap[k][1], materialMap[k][2])
              /\ Moved(RewriteCut, nono.text, "NamedMaterial",
                       materialMap[k][1], materialMap[k][2])

\* the anonymous material and its references carry the synthesized name
AnonymousRenamed ==
    /\ Moved(RewriteCut, nono.text, "MakeNamedMaterial",
             <<>>, <<PrefixOf(uuid), "noname_material">>)
    /\ Moved(RewriteCut, nono.text, "NamedMaterial",
             <<>>, <<PrefixOf(uuid), "noname_material">>)

IsPlaceholderPath(p) ==
    /\ p # <<>>
    /\ p[Len(p)] \in StarAtoms
    /\ Len(p) = 1 \/ p[Len(p) - 1] \in SlashEnded

\* the positions of the filename parameters of the text whose path is a
\* placeholder with an index below n
InRangePlaceholders(text, n) ==
    { i \in 1..Len(text) :
        /\ text[i] = StringFilename
        /\ NextQ(text, i + 1) # 0
        /\ IsPlaceholderPath(text[NextQ(text, i + 1)].s)
        /\ StarIndex(text[NextQ(text, i + 1)].s[Len(text[NextQ(text, i + 1)].s)]) < n }

\* C13: after one call of replaceTextureReferences no placeholder with an
\* index below the number of enumerated files is left in the text.
AllInRangeResolved ==
    resolveOut.ran
        => InRangePlaceholders(resolveOut.text, Len(resolveOut.files)) = {}

\* the filename parameters of the text, in order, whose path is a
\* placeholder with an index not below n
RECURSIVE OutOfRange(_, _, _)
OutOfRange(text, i, n) ==
    IF i > Len(text) THEN <<>>
    ELSE LET j == IF text[i] = StringFilename THEN NextQ(text, i + 1) ELSE 0
         IN  IF j # 0 /\ IsPlaceholderPath(text[j].s)
                /\ StarIndex(text[j].s[Len(text[j].s)]) >= n
             THEN <<SubSeq(text, i, j)>> \o OutOfRange(text, j + 1, n)
             ELSE OutOfRange(text, i + 1, n)

\* C14: a call of replaceTextureReferences returns every placeholder whose
\* index is not below the number of enumerated files as it was, and the
\* whole text as it was when the directory is missing or empty.
UnresolvableUntouched ==
    resolveOut.ran
        => /\ OutOfRange(resolveOut.text, 1, Len(resolveOut.files))
                = OutOfRange(resolveOut.input, 1, Len(resolveOut.files))
           /\ (~resolveOut.dir.exists \/ resolveOut.dir.files = <<>>)
                 => resolveOut.text = resolveOut.input

\* a call has resolved a placeholder and left another, out of range
SomeLeftSomeResolved ==
    /\ resolveOut.ran
    /\ resolveOut.files # <<>>
    /\ OutOfRange(resolveOut.input, 1, Len(resolveOut.files)) # <<>>
    /\ resolveOut.text # resolveOut.input

\* the directory listing [a.bin, b.png, c.bin] with a JPEG in a.bin and a
\* PNG in c.bin
SniffedListing ==
    Dir(<<TexFile(<<"a", ".bin">>, "jpg"), TexFile(<<"b", ".png">>, "png"),
          TexFile(<<"c", ".bin">>, "png")>>)

\* C15: for that listing the enumeration is [a.bin.jpg, b.png, c.bin.png]
\* and the placeholder *2 is resolved to c.bin.png.
SniffingScenario ==
    (resolveOut.ran /\ resolveOut.dir = SniffedListing)
        => /\ resolveOut.files = << <<"a", ".bin", ".jpg">>, <<"b", ".png">>,
                                    <<"c", ".bin", ".png">> >>
           /\ \A i \in 1..Len(resolveOut.text) :
                 (resolveOut.text[i].q
                    /\ IsPrefix(<<"models/", uuid, "/textures/", "c">>,
                                resolveOut.text[i].s))
                    => resolveOut.text[i].s
                         = <<"models/", uuid, "/textures/", "c", ".bin", ".png">>

\* ------------------------------------------------------------------------
\* Claims on POST /v1/transform
\* ------------------------------------------------------------------------
\* the indexes of the AttributeBegin tokens of a text, in order
RECURSIVE Begins(_, _)
Begins(text, i) ==
    LET b == FirstOf(text, i, {AttributeBegin})
    IN  IF b > Len(text) THEN <<>> ELSE <<b>> \o Begins(text, b + 1)

\* the scope delimiters from token i on are balanced, and never more than
\* maxDepth scopes are open
RECURSIVE ScopesClose(_, _, _, _)
ScopesClose(text, i, depth, maxDepth) ==
    LET d == FirstOf(text, i, {AttributeBegin, AttributeEnd})
    IN  IF d > Len(text) THEN depth = 0
        ELSE IF text[d] = AttributeBegin
             THEN depth < maxDepth /\ ScopesClose(text, d + 1, depth + 1, maxDepth)
             ELSE depth > 0 /\ ScopesClose(text, d + 1, depth - 1, maxDepth)

Balanced(text) == ScopesClose(text, 1, 0, Len(text))
FlatBalanced(text) == ScopesClose(text, 1, 0, 1)

\* the scope opened at token b of a text without nested scopes
ScopeOf(text, b) == SubSeq(text, b, FirstOf(text, b, {AttributeEnd}))

\* the line before the AttributeBegin at token b is a comment with the marker
OptedOut(text, b) ==
    b > 2 /\ text[b - 1] = NL /\ IsComment(text[b - 2])
          /\ Includes(text[b - 2].s, OptOutMarker)

CountSeq(text, pat) == Cardinality(Occurrences(text, pat))

\* the directive block of the last transform request
LastBlock ==
    JoinLines(transformCommands(lastTransform.translate, lastTransform.rotate,
                                lastTransform.scale)) \o <<NL>>
SomeComponent ==
    transformCommands(lastTransform.translate, lastTransform.rotate,
                      lastTransform.scale) # <<>>

\* C16: after a transform with at least one component of a scene whose
\* scopes are balanced and not nested, the output has the same scopes in the
\* same order, and every scope without the opt-out marker holds the block
\* Translate, Rotate, Scale (the given ones, in this order) exactly once more
\* than it did in the input.
EveryEligibleScopeOnce ==
    (lastTransform.ran /\ SomeComponent /\ FlatBalanced(lastTransform.input)) =>
        LET bi == Begins(lastTransform.input, 1)
            bo == Begins(momo.text, 1)
        IN  /\ Len(bo) = Len(bi)
            /\ \A k \in 1..Len(bi) :
                  ~OptedOut(lastTransform.input, bi[k]) =>
                      CountSeq(ScopeOf(momo.text, bo[k]), LastBlock)
                        = CountSeq(ScopeOf(lastTransform.input, bi[k]), LastBlock) + 1

\* C17: after a transform of a scene whose scopes are balanced and not
\* nested, every scope whose preceding comment line carries the opt-out
\* marker (and that holds no filename parameter, which the sanitizer run at
\* the end may rewrite) has in the output the text it had in the input.
OptOutUntouched ==
    (lastTransform.ran /\ FlatBalanced(lastTransform.input)) =>
        LET bi == Begins(lastTransform.input, 1)
            bo == Begins(momo.text, 1)
        IN  /\ Len(bo) = Len(bi)
            /\ \A k \in 1..Len(bi) :
                  ( /\ OptedOut(lastTransform.input, bi[k])
                    /\ IndexOf(ScopeOf(lastTransform.input, bi[k]), StringFilename, 1) = 0 )
                  => ScopeOf(momo.text, bo[k]) = ScopeOf(lastTransform.input, bi[k])

\* C18: the scene  AttributeBegin / Shape "sphere" / AttributeEnd  transformed
\* with translate = [1, 0, 0] alone yields the header comment (translate
\* stated, rotate and scale none) and the scope with  Translate 1 0 0  right
\* after AttributeBegin, followed by the Shape line.
ScenarioScene == <<AttributeBegin, NL>> \o ShapeLine \o <<AttributeEnd, NL>>
TransformScenario ==
    ( /\ lastTransform.ran
      /\ lastTransform.input = ScenarioScene
      /\ lastTransform.translate = <<"1", "0", "0">>
      /\ lastTransform.rotate = Absent
      /\ lastTransform.scale = Absent )
    => momo.text =
         << C(<<"# Transform applied on ", Timestamp>>), NL,
            W("# Parameters:"), NL,
            C(<<"# - Translate: ", "[", "1", ", ", "0", ", ", "0", "]">>), NL,
            C(<<"# - Rotate: ", "none">>), NL,
            C(<<"# - Scale: ", "none">>), NL,
            W("#-------------------------------------------"), NL, NL,
            AttributeBegin, NL,
            SP, SP, W("Translate"), SP, W("1"), SP, W("0"), SP, W("0"), NL >>
         \o ShapeLine \o <<AttributeEnd, NL>>

\* C19: for a nono.pbrt whose scope delimiters are unbalanced no transform
\* request is answered 200, no momo.pbrt is written and momo_available is
\* not set.
MalformedScopeAborts ==
    (nono.exists /\ ~Balanced(nono.text)) =>
        /\ transformResp # 200
        /\ ~momo.exists
        /\ ~info.momo_available

\* C20: at no time do two convert requests for the same model both have
\* the external converter running.
Converting == { r \in Converts : convReq[r].pc = "converting" }
OneConverterPerModel == Cardinality(Converting) <= 1

\* C21: every convert request that has started the external converter is
\* answered in the end, whatever the converter does.
ConvertAnswered ==
    \A r \in Converts :
        (convReq[r].pc = "converting") ~> (convReq[r].pc = "done")

ValueOf(text, i) ==
    IF text[i] # StringFilename THEN 0
    ELSE LET j == NextQ(text, i + 1)
         IN  IF j # 0 /\ text[j].s # <<>> THEN j ELSE 0

IsValueAt(text, k) == \E i \in 1..(k - 1) : ValueOf(text, i) = k

\* the value the claim gives for the value v
ClaimedValue(v) ==
    IF UnderModelsRoot(v) THEN Tail(v)
    ELSE IF ~StartsWithSlash(v) THEN BackslashToSlash(v)
    ELSE v

\* a token with its absolute model-texture placeholders made relative
Relativised(t) == [t EXCEPT !.s = RelPlaceholders(t.s, 1)]

\* the values the relative mode touches: the relative ones and those under
\* the models root
Touched(v) == (~StartsWithSlash(v)) \/ UnderModelsRoot(v)

\* token k is white space between a key and its touched value
InTouchedGap(text, k) ==
    /\ IsWS(text[k])
    /\ \E i \in 1..(k - 1) :
          /\ ValueOf(text, i) > k
          /\ Touched(text[ValueOf(text, i)].s)

\* C23 (as stated): in relative mode the text returned has, token for
\* token, the tokens of the input, but for the values of the filename
\* parameters, which are rewritten as the claim says, and the absolute
\* model-texture placeholders, which are made relative.
SanitizeChangesOnlyValues ==
    (sanitizeOut.ran /\ sanitizeOut.useRelativePath)
        => /\ Len(sanitizeOut.text) = Len(sanitizeOut.content)
           /\ \A k \in 1..Len(sanitizeOut.content) :
                 sanitizeOut.text[k]
                    = IF IsValueAt(sanitizeOut.content, k)
                      THEN Q(ClaimedValue(sanitizeOut.content[k].s))
                      ELSE Relativised(sanitizeOut.content[k])

\* what the relative mode makes of token k: a touched value comes with one
\* space before it, the white space that was before it is dropped
SanitizedPiece(text, k) ==
    IF IsValueAt(text, k) /\ Touched(text[k].s)
    THEN <<SP, Q(ClaimedValue(text[k].s))>>
    ELSE IF InTouchedGap(text, k) THEN <<>>
    ELSE <<Relativised(text[k])>>

RECURSIVE SanitizedPieces(_, _)
SanitizedPieces(text, k) ==
    IF k > Len(text) THEN <<>>
    ELSE SanitizedPiece(text, k) \o SanitizedPieces(text, k + 1)

\* C23 (amended): in relative mode the values of the filename parameters
\* are rewritten as the claim says and absolute model-texture placeholders
\* are made relative; the white space between "string filename" and a
\* value that is relative or under the models root becomes one space; all
\* other text is unchanged.
SanitizeChangesValuesAndSeparator ==
    (sanitizeOut.ran /\ sanitizeOut.useRelativePath)
        => sanitizeOut.text = SanitizedPieces(sanitizeOut.content, 1)

\* the relative mode has run on a text with a relative value or one under
\* the models root that more than one white-space character separates from
\* its key, and has returned a shorter text
SeparatorCollapsed ==
    /\ sanitizeOut.ran
    /\ sanitizeOut.useRelativePath
    /\ \E i \in 1..Len(sanitizeOut.content) :
          /\ ValueOf(sanitizeOut.content, i) > i + 2
          /\ Touched(sanitizeOut.content[ValueOf(sanitizeOut.content, i)].s)
    /\ \E k \in 1..Len(sanitizeOut.content) :
          /\ IsValueAt(sanitizeOut.content, k)
          /\ Includes(sanitizeOut.content[k].s, "\\")
    /\ Len(sanitizeOut.text) < Len(sanitizeOut.content)

\* ------------------------------------------------------------------------
\* C24 : where the transform block is inserted
\* ------------------------------------------------------------------------
\* the indexes of the Translate, Rotate and Scale directives of a scope
DirectivesOf(scope) ==
    { i \in 1..Len(scope) :
        scope[i] \in {W("Translate"), W("Rotate"), W("Scale")} }

\* the scope with the block where the claim puts it: after the line of the
\* last directive of the scope, or after the AttributeBegin line when the
\* scope has none
WithBlockAtClaimedPoint(scope, block) ==
    LET D == DirectivesOf(scope)
        last == IF D = {} THEN 1 ELSE CHOOSE i \in D : \A j \in D : j <= i
        at == FirstOf(scope, last, {NL})
    IN  SubSeq(scope, 1, at) \o block \o SubSeq(scope, at + 1, Len(scope))

\* C24: after a transform with at least one component of a scene whose
\* scopes are balanced and not nested, every scope without the opt-out
\* marker (and without a filename parameter, which the sanitizer run at the
\* end may rewrite) is the scope of the input with the new block right
\* after the line of its last Translate, Rotate or Scale directive, or
\* right after its AttributeBegin line when it has none.
BlockAtClaimedPoint ==
    (lastTransform.ran /\ SomeComponent /\ FlatBalanced(lastTransform.input)) =>
        LET bi == Begins(lastTransform.input, 1)
            bo == Begins(momo.text, 1)
        IN  /\ Len(bo) = Len(bi)
            /\ \A k \in 1..Len(bi) :
                  ( /\ ~OptedOut(lastTransform.input, bi[k])
                    /\ IndexOf(ScopeOf(lastTransform.input, bi[k]), StringFilename, 1) = 0 )
                  => ScopeOf(momo.text, bo[k])
                       = WithBlockAtClaimedPoint(ScopeOf(lastTransform.input, bi[k]),
                                                 LastBlock)

\* ------------------------------------------------------------------------
\* C25 : renders in flight at once
\* ------------------------------------------------------------------------
\* C25: a request whose render ends with an image while a request with
\* another fingerprint is rendering is answered with the image of the scene
\* it submitted, and that image is what is stored under its fingerprint.
NoMixedResults ==
    [][\A r \in Reqs :
          ( /\ Finishes(r)
            /\ req'[r].status = 200
            /\ \E q \in Reqs \ {r} :
                  /\ req[q].pc = "rendering"
                  /\ CachePath(req[q].hash) # CachePath(req[r].hash) )
          => /\ req'[r].body.scene = req[r].scene
             /\ rendered'[CachePath(req[r].hash)].img.scene = req[r].scene]_vars

\* ------------------------------------------------------------------------
\* C26 : the placeholders of a scene submitted for rendering
\* ------------------------------------------------------------------------
\* the path is the placeholder *N of the model, in the relative or in the
\* absolute form, with N below n
OwnPlaceholder(p, modelId, n) ==
    /\ \/ (Len(p) = 4 /\ SubSeq(p, 1, 3) = <<"models/", modelId, "/textures/">>)
       \/ (Len(p) = 5 /\ SubSeq(p, 1, 4)
                            = <<UploadsRoot, "models/", modelId, "/textures/">>)
    /\ p[Len(p)] \in StarAtoms
    /\ StarIndex(p[Len(p)]) < n

\* the filename parameters of the text whose value is such a placeholder
OwnPlaceholders(text, modelId, n) ==
    { i \in 1..Len(text) :
        /\ text[i] = StringFilename
        /\ NextQ(text, i + 1) # 0
        /\ OwnPlaceholder(text[NextQ(text, i + 1)].s, modelId, n) }

\* C26: the scene file the renderer is started on has no placeholder
\* models/<id>/textures/*N, relative or absolute, of a model that has more
\* than N texture files: each has been replaced by a file of the model.
PlaceholdersResolvedForRender ==
    resolveOut.ran
        => OwnPlaceholders(resolveOut.text, uuid, Len(resolveOut.dir.files)) = {}

\* ------------------------------------------------------------------------
\* C27 : placeholders qualified with another model
\* ------------------------------------------------------------------------
\* the filename parameters of the text whose value is a placeholder
\* models/<id>/textures/*N  with an id other than modelId
OtherModelPlaceholders(text, modelId) ==
    { i \in 1..Len(text) :
        /\ text[i] = StringFilename
        /\ NextQ(text, i + 1) # 0
        /\ StandardPlaceholder(text[NextQ(text, i + 1)].s)
        /\ text[NextQ(text, i + 1)].s[2] # modelId }

\* C27: a call of replaceTextureReferences for a model returns as many
\* placeholders qualified with another model id as it was given: none of
\* them is resolved to a file of the model.
OtherModelUntouched ==
    resolveOut.ran
        => Cardinality(OtherModelPlaceholders(resolveOut.text, uuid))
             = Cardinality(OtherModelPlaceholders(resolveOut.input, uuid))

\* ------------------------------------------------------------------------
\* C28 : the files of the textures directory across the extension repair
\* ------------------------------------------------------------------------
\* C28: after a call of replaceTextureReferences on a textures directory
\* the list detectAndFixImageFileExtensions returned has no name twice, its
\* names are the names of the files of the directory, and the directory
\* holds as many files as before the call.
NoFileLostOrDuplicated ==
    (resolveOut.ran /\ resolveOut.dir.exists)
        => /\ \A i, j \in 1..Len(resolveOut.files) :
                 i # j => resolveOut.files[i] # resolveOut.files[j]
           /\ { resolveOut.files[i] : i \in 1..Len(resolveOut.files) }
                 = { texturesDir.files[k].name : k \in 1..Len(texturesDir.files) }
           /\ Len(texturesDir.files) = Len(resolveOut.dir.files)

\* ------------------------------------------------------------------------
\* C29 : distinct names across the rename
\* ------------------------------------------------------------------------
\* the names of the directives  <word> "<name>"  of the text
DefinedNames(text, word) ==
    { text[NextQ(text, i + 1)].s :
        i \in { k \in 1..Len(text) : text[k] = W(word) /\ NextQ(text, k + 1) # 0 } }

\* C29: after the first rewrite of a converted scene the textures defined
\* have as many distinct names as before it, and so have the materials: no
\* two names that differed are the same afterwards.
DistinctNamesStayDistinct ==
    FirstRewriteDone
        => /\ Cardinality(DefinedNames(nono.text, "Texture"))
                = Cardinality(DefinedNames(RewriteCut, "Texture"))
           /\ Cardinality(DefinedNames(nono.text, "MakeNamedMaterial"))
                = Cardinality(DefinedNames(RewriteCut, "MakeNamedMaterial"))

====
